---- MODULE Spec2Model ----
(***************************************************************************)
(* Havoc: lifecycle state machine (src/src/havoc/state-machine.ts),        *)
(* Creator Reputation Index (src/unnamed/part_003), market-maker decision  *)
(* engine and liquidity manager (src/unnamed/part_002), orchestrator       *)
(* HavocOrchestrator                                                       *)
(* (src/src/havoc/performance-dashboard.ts), pattern detector              *)
(* (src/unnamed/part_004) and Mayhem intelligence                          *)
(* (src/src/havoc/mayhem-intelligence.ts).                                 *)
(*                                                                         *)
(* Time is Date.now() in whole seconds: every time constant of the code    *)
(* is a multiple of 1000 ms.  Scores are in hundredths of a point, ratios  *)
(* and severities in hundredths, the market-maker's signal in 1/10000,     *)
(* order amounts in thousandths of a SOL.                                  *)
(*                                                                         *)
(* Every async method is a call frame in `calls`.  A frame advances from   *)
(* one await to the next in one step; what the code does between two       *)
(* awaits is one atomic step, as on the JavaScript event loop.             *)
(***************************************************************************)
EXTENDS Integers, Sequences, FiniteSets, TLC

(***************************************************************************)
(* Bounds of the model                                                     *)
(***************************************************************************)
\* the clock is observed at half-hour instants 0 .. MaxEarly after launch
MaxEarly == 2
\* ... and at half-hour instants 0 .. MaxLate after the 24 h mark
MaxLate == 1
\* no call is started on an entity whose transition history is this long
MaxHistory == 2
\* no tick is started once the action log is this long
MaxLog == 4
\* number of call frames (calls that may be in flight at once)
MaxCalls == 2
\* HavocConfig.maxInterventionsPerHour of the orchestrator under test
MaxInterventionsPerHour == 2
\* no direct decideAction call is made once the action log is this long
MaxDecisions == 2
\* no listener is registered on an event type that has this many
MaxListeners == 2
\* no event is emitted directly once this many have been published
MaxEvents == 2
\* the reputation clock is observed at 0 .. MaxHalfLives half-lives
MaxHalfLives == 2
\* no rug detection is recorded directly for a dev that has this many
MaxRugs == 3
\* no direct evaluate call is made for a dev observed this many times
MaxEvaluations == 2
\* no magnitude is recorded for a pattern type that has this many observations
MaxObservations == 5
\* no transition is recorded once the sequence history is this long
MaxTransitions == 3
\* forecastMagnitude is called with lookaheadSteps 1 .. MaxLookahead
MaxLookahead == 4
\* no Mayhem observation is recorded once the observation history is this long
MaxMayhemObservations == 4
\* the Mayhem clock is observed at 0 .. MaxMinutes minutes
MaxMinutes == 1
\* orders a LiquidityManager records for one mint before the model stops calling it
MaxOrders == 6
\* calls a caller's loop makes after a pattern stream has reached its cap
MaxOverflow == 3

(***************************************************************************)
(* Program constants                                                       *)
(***************************************************************************)
\* granularity of the clock instants
HalfHour == 30 * 60
\* state-machine.ts:170   24 * 60 * 60 * 1000 ms
COOLDOWN_THRESHOLD == 24 * 60 * 60
\* recordInterventionForRateLimit: setTimeout(..., 60 * 60 * 1000)
RATE_RESET_DELAY == 60 * 60
\* applyTemporalDecay: HALF_LIFE_MS = 30 * 24 * 60 * 60 * 1000
HALF_LIFE == 30 * 24 * 60 * 60
\* evaluate: historicalBands ... .slice(-100)
HISTORICAL_BANDS_CAP == 100
\* recordRugDetection: 60 * 24 * 60 * 60 * 1000 ms
RECIDIVISM_WINDOW == 60 * 24 * 60 * 60
\* recordMagnitude: observations.slice(-1000)
OBSERVATIONS_CAP == 1000
\* recordTransition: seq.slice(-100)
HISTORY_CAP == 100
\* forecastMagnitude: observations.length < 5, observations.slice(-20)
MIN_FORECAST_OBSERVATIONS == 5
REGRESSION_WINDOW == 20
\* recordObservation: history.slice(-500)
OBSERVATION_HISTORY_CAP == 500
\* anticipateNextChaos: Date.now() - o.timestamp < 60000
RECENT_WINDOW == 60
\* LiquidityManager.recordOrders: history.slice(-10000)
ORDER_HISTORY_CAP == 10000
\* smoothVolume: anomalies below 15% are not smoothed
MIN_VOLUME_ANOMALY == 15
\* HavocMarketMaker.isRateLimited(poolId, cooldownMs = 30000)
ACTION_COOLDOWN == 30

Mints == {"m1", "m2"}
CRIBands == {"GUARDIAN", "NEUTRAL", "ADVERSARIAL"}
HavocStates ==
  {"INIT", "ACTIVE", "GUARDIAN", "NEUTRAL", "ADVERSARIAL", "COOLDOWN", "TERMINATED"}
\* reasons a caller passes to terminate(mint, reason)
Reasons == {"MANUAL", "BUDGET"}
\* rug severities (hundredths) a caller passes to onRugDetected
Severities == {50, 90}
\* HavocConfig.tokenMint and HavocConfig.launchTime of the orchestrator under test
TokenMint == "m1"
ConfigLaunchTime == 0
\* buildCRIInput: devWallet 11111111111111111111111111111111
PlaceholderDev == "dev0"
Devs == {"dev0", "dev1"}

\* HavocEventType
EventTypes ==
  {"CRI_CHANGE", "STATE_TRANSITION", "ACTION_EXECUTED", "RUG_DETECTED",
   "ANOMALY_DETECTED", "BUDGET_ALERT", "INITIALIZATION_COMPLETE", "TERMINATION",
   "ERROR"}
\* the event types subscribers name and publishers emit directly
ObservedTypes == {"ERROR"}
\* listener functions: TypedFns are registered with on() and once(), AnyFns
\* with onAny(); those of ThrowingFns throw when called
TypedFns == {"f1", "bad"}
AnyFns == {"monitor"}
ThrowingFns == {"bad"}
ListenerFns == TypedFns \cup AnyFns

TimePoints ==
  {h * HalfHour : h \in 0..MaxEarly}
    \cup {COOLDOWN_THRESHOLD + h * HalfHour : h \in 0..MaxLate}

CallIds == 1..MaxCalls

VARIABLES
  now,                  \* Date.now()
  tokenStates,          \* HavocStateMachine.tokenStates: mint -> TokenState
  calls,                \* call frames of the async methods
  emitted,              \* events published on the event bus, in order
  statusMap,            \* HavocOrchestrator.statusMap.get(tokenMint)
  interventionCounter,  \* HavocOrchestrator.interventionCounter.get(tokenMint) ?? 0
  timers,               \* deadlines of the pending setTimeout callbacks, in order
  records,              \* CreatorReputationIndex.records: dev -> CRIRecord
  actionLog,            \* HavocMarketMaker.actionLog
  lastActionTime,       \* HavocMarketMaker.lastActionTime: poolId -> time
  mmInput,              \* the (snapshot, band, signal) a direct caller of the engine holds
  listeners,            \* EventEmitter: event type -> registered listeners, in order
  received,             \* what each listener function was called with, in order
  unsubscribers,        \* the unsubscribe functions on / once / onAny have returned
  patterns,             \* PatternDetector.patterns: pattern type -> observations
  transitions,          \* PatternDetector.transitions.get(mint): the chain, in insertion order
  history,              \* PatternDetector.history.get(mint)
  observationHistory,   \* MayhemIntelligence.observationHistory.get(mint)
  mayhemPatterns,       \* MayhemIntelligence.patterns: action type -> pattern
  budgets,              \* LiquidityManager.budgets: mint -> LiquidityBudget
  orderHistory          \* LiquidityManager.orderHistory: mint -> orders, in order

orchVars == <<statusMap, interventionCounter, timers, records, actionLog>>
busVars == <<emitted, listeners, received, unsubscribers>>
mmVars == <<lastActionTime, mmInput>>
lmVars == <<budgets, orderHistory>>
mlVars ==
  <<patterns, transitions, history, observationHistory, mayhemPatterns, lmVars>>
vars == <<now, tokenStates, calls, busVars, orchVars, mmVars, mlVars>>

Max(a, b) == IF a >= b THEN a ELSE b
Min(a, b) == IF a <= b THEN a ELSE b
Abs(a) == IF a >= 0 THEN a ELSE -a
\* the last n elements of s: s.slice(-n) for n > 0
LastN(s, n) == IF Len(s) <= n THEN s ELSE SubSeq(s, Len(s) - n + 1, Len(s))
\* Array.prototype.slice(-limit) for limit >= 0: -0 is 0, and slice(0) is the
\* whole array
sliceFromEnd(s, limit) == IF limit = 0 THEN s ELSE LastN(s, limit)

(***************************************************************************)
(* State machine: data                                                     *)
(***************************************************************************)
\* tokenStates.get(mintKey) === undefined
NoToken ==
  [currentState |-> "NONE", criband |-> "null", stateStartTime |-> 0,
   transitionHistory |-> <<>>, launchTime |-> 0]

\* the TokenState initializeToken builds
NewTokenState(launchTime) ==
  [currentState |-> "INIT", criband |-> "null", stateStartTime |-> now,
   transitionHistory |-> <<>>, launchTime |-> launchTime]

\* registerHandlers: the states that have an exit / an entry handler
stateExitHandlers == {"INIT"}
stateEntryHandlers == {"INIT", "ACTIVE", "COOLDOWN", "TERMINATED"}

bandToActiveState(band) ==
  CASE band = "GUARDIAN" -> "GUARDIAN"
    [] band = "NEUTRAL" -> "NEUTRAL"
    [] band = "ADVERSARIAL" -> "ADVERSARIAL"
    [] OTHER -> "ACTIVE"

getState(m) ==
  IF tokenStates[m] = NoToken THEN "null" ELSE tokenStates[m].currentState

getTransitionHistory(m) == tokenStates[m].transitionHistory

StateTransition(prevState, newState, trigger) ==
  [from |-> prevState, to |-> newState, timestamp |-> now, triggeredBy |-> trigger]

\* mutant of performTransition: the transition is not recorded
performTransition_unrecorded(rec, prevState, newState, trigger) ==
  [rec EXCEPT !.currentState = newState, !.stateStartTime = now]

\* performTransition after its exit handler: update the state, record the transition
performTransition(rec, prevState, newState, trigger) ==
  [rec EXCEPT !.currentState = newState,
              !.stateStartTime = now,
              !.transitionHistory =
                 Append(@, StateTransition(prevState, newState, trigger))]

\* mutant of rugResponseState: a rug detection only demotes to NEUTRAL
rugResponseState_neutral == "NEUTRAL"

\* onRugDetected: the state a rug detection moves to
rugResponseState == "ADVERSARIAL"

\* enterCooldown: elapsedMs > 24 * 60 * 60 * 1000
elapsed24h(rec) == now - rec.launchTime > COOLDOWN_THRESHOLD

(***************************************************************************)
(* Call frames                                                             *)
(*   op       the method the caller invoked                                *)
(*   sub      the state machine method running in it                       *)
(*   pc       the await the frame is suspended at; "done" once returned    *)
(*   arg      the argument (band, severity, reason, Mayhem signal)         *)
(*   prev     the entity's state when the state machine method was entered *)
(*            (performTransition's prevState)                              *)
(*   to, trigger   performTransition's newState and trigger                *)
(*   band, action  tick's locals                                           *)
(*   mark     length of the actor's rug history when the call started;     *)
(*            no step reads it                                             *)
(*   ret      what the call returned ("error": it threw)                   *)
(*   log      the array the call returned (getActionLog)                   *)
(***************************************************************************)
IdleFrame ==
  [op |-> "none", sub |-> "none", pc |-> "done", mint |-> "m1", arg |-> "-",
   prev |-> "-", to |-> "-", trigger |-> "-", band |-> "-", action |-> "-",
   mark |-> 0, ret |-> "-", log |-> <<>>]

Free(c) == calls[c].pc = "done"
NoneInFlight == \A c \in CallIds : Free(c)
InFlightOn(m) == \E c \in CallIds : ~Free(c) /\ calls[c].mint = m

\* the frame a new call takes: the lowest free one; with serial = TRUE a call
\* starts only when no other call is in flight
Starts(serial, c) ==
  /\ Free(c)
  /\ \A d \in CallIds : Free(d) => c <= d
  /\ serial => NoneInFlight

Frame(op, m, arg) ==
  [IdleFrame EXCEPT !.op = op, !.pc = "start", !.mint = m, !.arg = arg]

\* a frame that has returned `ret` to its caller
Returned(f, ret) ==
  [IdleFrame EXCEPT !.op = f.op, !.sub = f.sub, !.mint = f.mint, !.ret = ret]

\* The synchronous start of performTransition(state, newState, trigger) in frame f:
\* with an exit handler for the current state the frame awaits it before the
\* state is updated; without one the state is updated at once.
\* Gives <<TokenState, frame>>.
beginTransition(f, rec, newState, trigger) ==
  IF rec.currentState \in stateExitHandlers
    THEN <<rec, [f EXCEPT !.pc = "pt_exit", !.to = newState]>>
    ELSE <<performTransition(rec, rec.currentState, newState, trigger),
           [f EXCEPT !.pc = "sm_ret"]>>

\* the transition a state machine method asks for: <<wanted?, newState, trigger>>
requested(sub, rec, arg) ==
  CASE sub = "transitionOnCRIChange" ->
         <<bandToActiveState(arg) # rec.currentState, bandToActiveState(arg), "CRI_CHANGE">>
    [] sub = "onRugDetected" ->
         <<rec.currentState # rugResponseState, rugResponseState, "RUG_DETECTED">>
    [] sub = "enterCooldown" ->
         <<elapsed24h(rec) /\ rec.currentState # "COOLDOWN", "COOLDOWN", "24H_THRESHOLD">>
    [] sub = "terminate" -> <<TRUE, "TERMINATED", arg>>

\* A state machine method (transitionOnCRIChange, onRugDetected, enterCooldown,
\* terminate) run in frame f up to its first await.  Gives <<TokenState, frame>>;
\* pc = "threw" when the token is not initialized.
smMethod(f, sub, m, arg) ==
  LET rec == tokenStates[m]
      g == [f EXCEPT !.sub = sub, !.mint = m, !.prev = rec.currentState,
                     !.trigger = requested(sub, rec, arg)[3]]
  IN IF rec = NoToken
       THEN <<rec, [g EXCEPT !.pc = "threw"]>>
       ELSE LET rec1 == IF sub = "transitionOnCRIChange"
                          THEN [rec EXCEPT !.criband = arg] ELSE rec
                req == requested(sub, rec1, arg)
            IN IF req[1]
                 THEN beginTransition(g, rec1, req[2], req[3])
                 ELSE <<rec1, [g EXCEPT !.pc = "sm_ret"]>>

(***************************************************************************)
(* State machine driven directly (as the tests do)                         *)
(***************************************************************************)
\* no call is started on an entity whose history is full (bound of the model)
Room(m) == Len(tokenStates[m].transitionHistory) < MaxHistory

\* initializeToken storing the new TokenState under every mint
initializeToken_everyMint(serial, m, launchTime) ==
  \E c \in CallIds :
    /\ Starts(serial, c)
    /\ ~InFlightOn(m)
    /\ tokenStates' = [x \in Mints |-> NewTokenState(launchTime)]
    /\ calls' = [calls EXCEPT ![c] =
                   Returned([Frame("initializeToken", m, launchTime)
                               EXCEPT !.sub = "initializeToken"], "INIT")]
    /\ UNCHANGED <<now, busVars, mmVars, mlVars, orchVars>>

\* initializeToken has no await.  It replaces the TokenState object, so the
\* model starts it only when no call holds the old object.
initializeToken(serial, m, launchTime) ==
  \E c \in CallIds :
    /\ Starts(serial, c)
    /\ ~InFlightOn(m)
    /\ tokenStates' = [tokenStates EXCEPT ![m] = NewTokenState(launchTime)]
    /\ calls' = [calls EXCEPT ![c] =
                   Returned([Frame("initializeToken", m, launchTime)
                               EXCEPT !.sub = "initializeToken"], "INIT")]
    /\ UNCHANGED <<now, busVars, mmVars, mlVars, orchVars>>

\* a direct call of a state machine method: runs to its first await
smCall(serial, sub, m, arg) ==
  \E c \in CallIds :
    /\ Starts(serial, c)
    /\ Room(m)
    /\ LET r == smMethod(Frame(sub, m, arg), sub, m, arg)
       IN /\ tokenStates' = [tokenStates EXCEPT ![m] = r[1]]
          /\ calls' = [calls EXCEPT ![c] =
                         IF r[2].pc = "threw" THEN Returned(r[2], "error") ELSE r[2]]
    /\ UNCHANGED <<now, busVars, mmVars, mlVars, orchVars>>

transitionOnCRIChange(serial, m, newBand) ==
  smCall(serial, "transitionOnCRIChange", m, newBand)

onRugDetected(serial, m, severity) ==
  /\ severity \in Severities
  /\ smCall(serial, "onRugDetected", m, severity)

enterCooldown(serial, m) == smCall(serial, "enterCooldown", m, "-")

terminate(serial, m, reason) == smCall(serial, "terminate", m, reason)

\* performTransition resumes after `await exitHandler()`
afterExitHandler(c) ==
  LET f == calls[c]
  IN /\ f.pc = "pt_exit"
     /\ tokenStates' = [tokenStates EXCEPT ![f.mint] =
                          performTransition(@, f.prev, f.to, f.trigger)]
     /\ calls' = [calls EXCEPT ![c] = [f EXCEPT !.pc = "sm_ret", !.to = "-"]]
     /\ UNCHANGED <<now, busVars, mmVars, mlVars, orchVars>>

\* a directly called method returns (`return state.currentState`; terminate: void)
smReturn(c) ==
  LET f == calls[c]
  IN /\ f.pc = "sm_ret"
     /\ f.op = f.sub
     /\ calls' = [calls EXCEPT ![c] =
                    Returned(f, IF f.sub = "terminate" THEN "void"
                                ELSE tokenStates[f.mint].currentState)]
     /\ UNCHANGED <<now, tokenStates, busVars, mmVars, mlVars, orchVars>>

\* time passes
Advance ==
  /\ \E t \in TimePoints : t > now /\ now' = t
  /\ UNCHANGED <<tokenStates, calls, busVars, mmVars, mlVars, orchVars>>

(***************************************************************************)
(* Creator Reputation Index                                                *)
(***************************************************************************)
\* records.get(devKey) === undefined
NoRecord ==
  [internalScore |-> 0, band |-> "null", lastUpdated |-> 0, observationCount |-> 0,
   historicalBands |-> <<>>, rugDetections |-> <<>>, recidivismCount |-> 0]

\* 1000 * e^(-k/10), k = 0 .. 60
ExpTable ==
  <<1000, 905, 819, 741, 670, 607, 549, 497, 449, 407, 368, 333, 301, 273, 247,
    223, 202, 183, 165, 150, 135, 122, 111, 100, 91, 82, 74, 67, 61, 55, 50, 45,
    41, 37, 33, 30, 27, 25, 22, 20, 18, 17, 15, 14, 12, 11, 10, 9, 8, 7, 7, 6, 6,
    5, 5, 4, 4, 3, 3, 3, 2>>

\* Math.exp(-ageMs / HALF_LIFE_MS) in thousandths, the age taken in tenths of
\* HALF_LIFE_MS
decayFactor(age) ==
  LET k == (Max(age, 0) * 10) \div HALF_LIFE
  IN IF k + 1 <= Len(ExpTable) THEN ExpTable[k + 1] ELSE 0

RECURSIVE sumDecayed(_)
\* the loop of applyTemporalDecay: sum of severity * decayFactor, in hundredths
sumDecayed(rugDetections) ==
  IF rugDetections = <<>> THEN 0
  ELSE (Head(rugDetections).severity * decayFactor(now - Head(rugDetections).timestamp))
          \div 1000
       + sumDecayed(Tail(rugDetections))

\* recidivismMultiplier, in tenths: 1, 2.5, 4
recidivismMultiplier(recidivismCount) ==
  IF recidivismCount = 0 THEN 10 ELSE IF recidivismCount = 1 THEN 25 ELSE 40

\* decayedPenalty * recidivismMultiplier, in hundredths
applyTemporalDecay(rugDetections, recidivismCount) ==
  (sumDecayed(rugDetections) * recidivismMultiplier(recidivismCount)) \div 10

\* Math.pow(c, 1.5) * 30 in hundredths of a point, c in hundredths:
\* 3000 * (c/100)^1.5 = sqrt(9 c^3), rounded down; it lies between 3 c s and
\* 3 c (s + 1) for s the whole part of sqrt(c)
concentrationPenalty(c) ==
  LET s == CHOOSE x \in 0..c : x * x <= c /\ (x + 1) * (x + 1) > c
  IN CHOOSE r \in (3 * c * s)..(3 * c * (s + 1)) :
       r * r <= 9 * c * c * c /\ (r + 1) * (r + 1) > 9 * c * c * c

\* computeScore, in hundredths of a point; hasRecord: `record` is given
computeScore(input, hasRecord, record) ==
  LET rug == IF hasRecord
               THEN Min(applyTemporalDecay(record.rugDetections, record.recidivismCount) * 20,
                        4500)
               ELSE Min(input.previousRugDetections * 1500, 4000) + input.rugSeverity * 20
      grad == (input.successfulLaunches * 2000) \div Max(input.totalLaunches, 1)
      retention == input.postGraduationRetention * 15
      extraction == IF input.extractionVelocity > 1000 THEN 2500 ELSE 0
      concentration == IF input.topHolderConcentration > 30
                         THEN concentrationPenalty(input.topHolderConcentration) ELSE 0
      early == input.presaleExitRate * 15 + Min(input.firstHourVolatility, 100) * 20
      bots == input.suspiciousBotWashTrades * 500 + input.flashLoanExploits * 4000
      bonus == (IF input.consistentLiquidityAdditions THEN 1000 ELSE 0)
                 + (IF input.stableLaunchHistory THEN 1500 ELSE 0)
                 + (IF input.holderGrowthQuality THEN 1000 ELSE 0)
      score == 5000 - rug + grad + retention - extraction - concentration
                 - early - bots + bonus
  IN Max(0, Min(10000, score))

\* scoreToBand with the Guardian threshold exclusive
scoreToBand_exclusive(score) ==
  IF score > 8000 THEN "GUARDIAN" ELSE IF score >= 4000 THEN "NEUTRAL" ELSE "ADVERSARIAL"

scoreToBand(score) ==
  IF score >= 8000 THEN "GUARDIAN" ELSE IF score >= 4000 THEN "NEUTRAL" ELSE "ADVERSARIAL"

\* evaluate(input): <<the record stored for input.devWallet, the band returned>>
evaluate(input) ==
  LET existing == records[input.devWallet]
      score == computeScore(input, existing # NoRecord, existing)
      band == scoreToBand(score)
  IN <<[internalScore |-> score,
        band |-> band,
        lastUpdated |-> now,
        observationCount |-> existing.observationCount + 1,
        historicalBands |->
          LastN(Append(existing.historicalBands, band), HISTORICAL_BANDS_CAP),
        rugDetections |-> existing.rugDetections,
        recidivismCount |-> existing.recidivismCount],
       band>>

\* mutant of recordRugDetection: every detection after the first counts as a
\* repeat offense, whatever its age
recordRugDetection_anyAge(devWallet, severity) ==
  LET record == records[devWallet]
      pushed == Append(record.rugDetections,
                       [timestamp |-> now, severity |-> severity])
  IN IF record = NoRecord THEN record
     ELSE [record EXCEPT !.rugDetections = pushed,
                         !.recidivismCount = IF Len(pushed) > 1 THEN @ + 1 ELSE @]

\* recordRugDetection(devWallet, severity): the record stored for devWallet
\* afterwards; nothing is stored for a dev that has no record
recordRugDetection(devWallet, severity) ==
  LET record == records[devWallet]
      pushed == Append(record.rugDetections,
                       [timestamp |-> now, severity |-> severity])
      recentRugs == {i \in 1..Len(pushed) :
                       now - pushed[i].timestamp < RECIDIVISM_WINDOW}
  IN IF record = NoRecord THEN record
     ELSE [record EXCEPT !.rugDetections = pushed,
                         !.recidivismCount =
                           IF Cardinality(recentRugs) > 1 THEN @ + 1 ELSE @]

\* getBand(devWallet): record?.band ?? null
getBand(devWallet) == records[devWallet].band

\* getScoreForTesting(devWallet): record?.internalScore ?? null
getScoreForTesting(devWallet) ==
  IF records[devWallet] = NoRecord THEN "null" ELSE records[devWallet].internalScore

\* the dev a direct caller of the index evaluates and reports
EvaluatedDevs == {"dev1"}
\* severity a direct caller reports (0.6)
RugSeverities == {60}
\* the instants the reputation clock is observed at
CRITimePoints == {h * HALF_LIFE : h \in 0..MaxHalfLives}

\* evidence with every count and ratio 0 and no positive indicator: 50 points
BaselineEvidence(devWallet) ==
  [devWallet |-> devWallet,
   previousRugDetections |-> 0, rugSeverity |-> 0,
   successfulLaunches |-> 0, totalLaunches |-> 0,
   postGraduationRetention |-> 0, extractionVelocity |-> 0,
   topHolderConcentration |-> 0,
   presaleExitRate |-> 0, firstHourVolatility |-> 0,
   suspiciousBotWashTrades |-> 0, flashLoanExploits |-> 0,
   consistentLiquidityAdditions |-> FALSE, stableLaunchHistory |-> FALSE,
   holderGrowthQuality |-> FALSE]

\* evidence a direct caller passes to evaluate: 50 points, exactly 80, exactly
\* 40, out-of-range ratios and negative counts far below 0 and far above
\* 100, and one previous rug detection reported in the evidence
Evidence(devWallet) ==
  {BaselineEvidence(devWallet),
   [BaselineEvidence(devWallet) EXCEPT !.successfulLaunches = 1, !.totalLaunches = 1,
                                       !.consistentLiquidityAdditions = TRUE],
   [BaselineEvidence(devWallet) EXCEPT !.suspiciousBotWashTrades = 2],
   [BaselineEvidence(devWallet) EXCEPT !.flashLoanExploits = 3,
                                       !.postGraduationRetention = -50,
                                       !.topHolderConcentration = 150,
                                       !.presaleExitRate = 250],
   [BaselineEvidence(devWallet) EXCEPT !.successfulLaunches = 5, !.totalLaunches = -2,
                                       !.postGraduationRetention = 500,
                                       !.previousRugDetections = -1,
                                       !.firstHourVolatility = -300],
   [BaselineEvidence(devWallet) EXCEPT !.previousRugDetections = 1]}

\* cri.evaluate(input) called directly; it has no await: the record is stored
\* and the band returned in one step
criEvaluate(input) ==
  \E c \in CallIds :
    /\ Starts(TRUE, c)
    /\ records[input.devWallet].observationCount < MaxEvaluations
    /\ LET e == evaluate(input)
       IN /\ records' = [records EXCEPT ![input.devWallet] = e[1]]
          /\ calls' = [calls EXCEPT ![c] =
                         [Returned(Frame("evaluate", TokenMint, input), e[2])
                            EXCEPT !.sub = "evaluate", !.arg = input]]
    /\ UNCHANGED <<now, tokenStates, busVars, mmVars, mlVars, statusMap, interventionCounter,
                   timers, actionLog>>

\* cri.recordRugDetection(devWallet, severity) called directly; the frame
\* keeps the length the dev's rug history had before the call
criRecordRugDetection(devWallet, severity) ==
  \E c \in CallIds :
    /\ Starts(TRUE, c)
    /\ Len(records[devWallet].rugDetections) < MaxRugs
    /\ records' = [records EXCEPT ![devWallet] = recordRugDetection(devWallet, severity)]
    /\ calls' = [calls EXCEPT ![c] =
                   [Returned(Frame("recordRugDetection", TokenMint, severity), "void")
                      EXCEPT !.sub = devWallet, !.arg = severity,
                             !.mark = Len(records[devWallet].rugDetections)]]
    /\ UNCHANGED <<now, tokenStates, busVars, mmVars, mlVars, statusMap, interventionCounter,
                   timers, actionLog>>

\* time passes between two calls of the index
criWait ==
  /\ \E t \in CRITimePoints : t > now /\ now' = t
  /\ UNCHANGED <<tokenStates, calls, busVars, mmVars, mlVars, orchVars>>

(***************************************************************************)
(* Market maker                                                            *)
(***************************************************************************)
\* context.mayhemSignals === undefined
NoSignal == [present |-> FALSE, chaosLevel |-> 0, suggestedSynchronization |-> FALSE]
\* Mayhem signals a caller passes to tick (chaosLevel in hundredths)
Signals ==
  {NoSignal,
   [present |-> TRUE, chaosLevel |-> 90, suggestedSynchronization |-> TRUE],
   [present |-> TRUE, chaosLevel |-> 50, suggestedSynchronization |-> FALSE]}

\* computeInternalSignal, in 1/10000 (orderBookImbalance in hundredths)
computeInternalSignal(poolState) ==
  poolState.volatility * 3000 + poolState.spreadBps * 25
    + poolState.volume24h * 20 + Abs(poolState.orderBookImbalance) * 25

guardianModeDecision(poolState, signal) ==
  IF poolState.spreadBps > 200 THEN "SPREAD_COMPRESSION"
  ELSE IF poolState.volatility > 15 THEN "VOLUME_SMOOTHING"
  ELSE IF signal > 7000 THEN "MOMENTUM_VALIDATION"
  ELSE "NO_ACTION"

adversarialModeDecision(poolState, signal) ==
  IF signal > 8000 THEN "EXTRACTION_SUPPRESSION"
  ELSE IF poolState.volatility > 25 THEN "CRASH_BUFFERING"
  ELSE IF poolState.orderBookImbalance > 60 THEN "EXTRACTION_SUPPRESSION"
  ELSE "NO_ACTION"

neutralModeDecision(poolState, signal) ==
  IF poolState.spreadBps > 300 THEN "SPREAD_COMPRESSION"
  ELSE IF poolState.volatility > 20 THEN "VOLUME_SMOOTHING"
  ELSE "NO_ACTION"

\* mutant of guardianEscalates: the escalation starts at magnitude 0.7
guardianEscalates_inclusive(chaosLevel) == chaosLevel >= 70

\* coordinateWithMayhem: mayhemSignal.chaosLevel > 0.7
guardianEscalates(chaosLevel) == chaosLevel > 70

\* mutant of coordinateWithMayhem: no synchronization on the ADVERSARIAL band
coordinateWithMayhem_unsynchronized(decision, mayhemSignal, criband) ==
  IF criband = "GUARDIAN" /\ guardianEscalates(mayhemSignal.chaosLevel)
       /\ decision = "NO_ACTION"
    THEN "CRASH_BUFFERING"
  ELSE decision

coordinateWithMayhem(decision, mayhemSignal, criband) ==
  IF criband = "GUARDIAN" /\ guardianEscalates(mayhemSignal.chaosLevel)
       /\ decision = "NO_ACTION"
    THEN "CRASH_BUFFERING"
  ELSE IF criband = "ADVERSARIAL" /\ mayhemSignal.suggestedSynchronization
    THEN "EXTRACTION_SUPPRESSION"
  ELSE decision

\* what the Guardian / Adversarial / Neutral policy chooses for a band
policyDecision(poolState, criband) ==
  LET signal == computeInternalSignal(poolState)
  IN IF criband = "GUARDIAN" THEN guardianModeDecision(poolState, signal)
     ELSE IF criband = "ADVERSARIAL" THEN adversarialModeDecision(poolState, signal)
     ELSE neutralModeDecision(poolState, signal)

\* mutant of decideAction: no action once an action has been logged
decideAction_throttled(poolState, criband, mayhemSignals) ==
  IF actionLog # <<>> THEN "NO_ACTION"
  ELSE IF mayhemSignals.present
    THEN coordinateWithMayhem(policyDecision(poolState, criband), mayhemSignals, criband)
    ELSE policyDecision(poolState, criband)

\* the action type decideAction chooses
decideAction(poolState, criband, mayhemSignals) ==
  IF mayhemSignals.present
    THEN coordinateWithMayhem(policyDecision(poolState, criband), mayhemSignals, criband)
    ELSE policyDecision(poolState, criband)

\* the MMAction decideAction pushes on actionLog and returns
MMAction(type) == [type |-> type, timestamp |-> now]

\* getActionLog(limit)
getActionLog(limit) == sliceFromEnd(actionLog, limit)

\* pool ids a caller passes to isRateLimited and recordAction
PoolIds == {"p1"}
\* lastActionTime.get(poolId) === undefined
NoTime == -1

\* HavocMarketMaker.isRateLimited(poolId, cooldownMs): `!lastTime` holds for
\* undefined and for 0
mmIsRateLimited(poolId, cooldownMs) ==
  LET lastTime == lastActionTime[poolId]
  IN IF lastTime = NoTime \/ lastTime = 0 THEN FALSE ELSE now - lastTime < cooldownMs

\* market snapshots, bands and Mayhem signals a direct caller passes to
\* decideAction (the fields decideAction reads)
PoolStates ==
  [spreadBps : {100, 250, 500}, volume24h : {0}, volatility : {1, 30},
   orderBookImbalance : {0, 70}]
MayhemSignals ==
  {NoSignal} \cup [present : {TRUE}, chaosLevel : {70, 71},
                   suggestedSynchronization : BOOLEAN]
MMInputs == [poolState : PoolStates, criband : CRIBands, mayhemSignals : MayhemSignals]
\* the input held when the engine is not called directly
NoInput ==
  [poolState |-> [spreadBps |-> 100, volume24h |-> 0, volatility |-> 1,
                  orderBookImbalance |-> 0],
   criband |-> "NEUTRAL", mayhemSignals |-> NoSignal]

\* mutant of mmDecideAction: the engine also records the action for the
\* rate limit of every pool
mmDecideAction_recording(input) ==
  \E c \in CallIds :
    /\ Free(c)
    /\ Len(actionLog) < MaxDecisions
    /\ LET a == MMAction(decideAction(input.poolState, input.criband,
                                      input.mayhemSignals))
       IN /\ actionLog' = Append(actionLog, a)
          /\ calls' = [calls EXCEPT ![c] =
                         [Returned(Frame("decideAction", TokenMint, input), a.type)
                            EXCEPT !.sub = "decideAction", !.arg = input]]
    /\ lastActionTime' = [p \in PoolIds |-> now]
    /\ UNCHANGED <<now, tokenStates, busVars, statusMap, interventionCounter, timers,
                   records, mmInput, mlVars>>

\* mm.decideAction(input.poolState, {criband, mayhemSignals}) called directly;
\* it has no await: the action is logged and returned in one step.  The
\* caller keeps the input and the type of the action it got.
mmDecideAction(input) ==
  \E c \in CallIds :
    /\ Free(c)
    /\ Len(actionLog) < MaxDecisions
    /\ LET a == MMAction(decideAction(input.poolState, input.criband,
                                      input.mayhemSignals))
       IN /\ actionLog' = Append(actionLog, a)
          /\ calls' = [calls EXCEPT ![c] =
                         [Returned(Frame("decideAction", TokenMint, input), a.type)
                            EXCEPT !.sub = "decideAction", !.arg = input]]
    /\ UNCHANGED <<now, tokenStates, busVars, statusMap, interventionCounter, timers,
                   records, mmVars, mlVars>>

\* mm.recordAction(poolId)
recordAction(poolId) ==
  /\ lastActionTime' = [lastActionTime EXCEPT ![poolId] = now]
  /\ UNCHANGED <<now, tokenStates, calls, busVars, orchVars, mmInput, mlVars>>

\* mm.getActionLog(limit) called directly; the caller keeps the array
mmGetActionLog(limit) ==
  \E c \in CallIds :
    /\ Starts(TRUE, c)
    /\ calls' = [calls EXCEPT ![c] =
                   [Returned(Frame("getActionLog", TokenMint, limit), "array")
                      EXCEPT !.sub = "getActionLog", !.arg = limit,
                             !.log = getActionLog(limit)]]
    /\ UNCHANGED <<now, tokenStates, busVars, orchVars, mmVars, mlVars>>

(***************************************************************************)
(* Event bus (HavocEventEmitter over Node's EventEmitter)                  *)
(***************************************************************************)
\* an entry of the listener array of an event type: the function, whether
\* it was added by once(), whether it is a wrapper made by onAny()
Registration(fn, once, any) == [fn |-> fn, once |-> once, any |-> any]

\* the closure on() / once() returns: removeListener(eventType, listener)
Unsubscriber(eventType, fn) == [kind |-> "one", type |-> eventType, fn |-> fn]
\* the closure onAny() returns: removeAllListeners(type) for every type
AnyUnsubscriber(fn) == [kind |-> "any", type |-> "*", fn |-> fn]

\* the payload of the n-th event published
Event(eventType) == [type |-> eventType, id |-> Len(emitted) + 1]

RECURSIVE deliver(_, _, _)
\* EventEmitter.emit calls the listeners in the order they were added; a
\* listener that throws ends the emit, the exception passing to the caller.
\* Gives what every function has received, whether a listener threw, and how
\* many listeners were called.
deliver(regs, event, rcv) ==
  IF regs = <<>> THEN [received |-> rcv, threw |-> FALSE, called |-> 0]
  ELSE LET r == Head(regs)
           rcv1 == [rcv EXCEPT ![r.fn] = Append(@, event)]
       IN IF r.fn \in ThrowingFns
            THEN [received |-> rcv1, threw |-> TRUE, called |-> 1]
            ELSE [deliver(Tail(regs), event, rcv1) EXCEPT !.called = @ + 1]

RECURSIVE withoutCalledOnce(_, _)
\* a once() wrapper removes itself when it is called: the listener array
\* without the once() entries among its first n
withoutCalledOnce(regs, n) ==
  IF regs = <<>> \/ n = 0 THEN regs
  ELSE IF Head(regs).once THEN withoutCalledOnce(Tail(regs), n - 1)
  ELSE <<Head(regs)>> \o withoutCalledOnce(Tail(regs), n - 1)

RECURSIVE removeListener(_, _)
\* EventEmitter.removeListener(type, listener): removes the most recently
\* added entry of that function; the wrappers of onAny() are other functions
removeListener(regs, fn) ==
  IF regs = <<>> THEN regs
  ELSE LET last == regs[Len(regs)]
           front == SubSeq(regs, 1, Len(regs) - 1)
       IN IF last.fn = fn /\ ~last.any THEN front
          ELSE Append(removeListener(front, fn), last)

\* on(eventType, listener)
on(eventType, listener) ==
  /\ Len(listeners[eventType]) < MaxListeners
  /\ listeners' = [listeners EXCEPT ![eventType] =
                     Append(@, Registration(listener, FALSE, FALSE))]
  /\ unsubscribers' = unsubscribers \cup {Unsubscriber(eventType, listener)}
  /\ UNCHANGED <<now, tokenStates, calls, emitted, received, orchVars, mmVars, mlVars>>

\* once(eventType, listener)
once(eventType, listener) ==
  /\ Len(listeners[eventType]) < MaxListeners
  /\ listeners' = [listeners EXCEPT ![eventType] =
                     Append(@, Registration(listener, TRUE, FALSE))]
  /\ unsubscribers' = unsubscribers \cup {Unsubscriber(eventType, listener)}
  /\ UNCHANGED <<now, tokenStates, calls, emitted, received, orchVars, mmVars, mlVars>>

\* onAny(listener): a wrapper is added on every event type
onAny(listener) ==
  /\ \A t \in EventTypes : Len(listeners[t]) < MaxListeners
  /\ listeners' = [t \in EventTypes |->
                     Append(listeners[t], Registration(listener, FALSE, TRUE))]
  /\ unsubscribers' = unsubscribers \cup {AnyUnsubscriber(listener)}
  /\ UNCHANGED <<now, tokenStates, calls, emitted, received, orchVars, mmVars, mlVars>>

\* a subscriber calls an unsubscribe function it was given
unsubscribe(u) ==
  \E c \in CallIds :
    /\ Starts(TRUE, c)
    /\ u \in unsubscribers
    /\ listeners' = IF u.kind = "any"
                      THEN [t \in EventTypes |-> <<>>]
                      ELSE [listeners EXCEPT ![u.type] = removeListener(@, u.fn)]
    /\ calls' = [calls EXCEPT ![c] =
                   [Returned(Frame("unsubscribe", TokenMint, u), "void")
                      EXCEPT !.arg = u]]
    /\ UNCHANGED <<now, tokenStates, emitted, received, unsubscribers, orchVars,
                   mmVars, mlVars>>

\* emitStateTransition, emitError, ...: this.emitter.emit(eventType, event)
emit(eventType) ==
  \E c \in CallIds :
    /\ Starts(TRUE, c)
    /\ Len(emitted) < MaxEvents
    /\ LET event == Event(eventType)
           d == deliver(listeners[eventType], event, received)
       IN /\ emitted' = Append(emitted, event)
          /\ received' = d.received
          /\ listeners' = [listeners EXCEPT ![eventType] =
                             withoutCalledOnce(@, d.called)]
          /\ calls' = [calls EXCEPT ![c] =
                         [Returned(Frame("emit", TokenMint, eventType),
                                   IF d.threw THEN "error" ELSE "void")
                            EXCEPT !.arg = eventType]]
    /\ UNCHANGED <<now, tokenStates, unsubscribers, orchVars, mmVars, mlVars>>

(***************************************************************************)
(* Orchestrator                                                            *)
(***************************************************************************)
\* statusMap.get(mintKey) === undefined
NoStatus ==
  [state |-> "NONE", criband |-> "null", lastUpdate |-> 0, totalActions |-> 0,
   nextActionEligible |-> 0]

\* the HavocStatus initialize stores
NewStatus ==
  [state |-> "INIT", criband |-> "null", lastUpdate |-> now, totalActions |-> 0,
   nextActionEligible |-> now]

getStatus == statusMap

\* fetchPoolState: the PoolState built from the first pool (the fields the
\* market maker reads; price and reserves come from the pool and decide nothing)
fetchPoolState ==
  [spreadBps |-> 100, volume24h |-> 0, volatility |-> 5, orderBookImbalance |-> 0]

\* buildCRIInput
buildCRIInput ==
  [devWallet |-> PlaceholderDev,
   previousRugDetections |-> 0, rugSeverity |-> 0,
   successfulLaunches |-> 1, totalLaunches |-> 1,
   postGraduationRetention |-> 80, extractionVelocity |-> 100,
   topHolderConcentration |-> 10,
   presaleExitRate |-> 5, firstHourVolatility |-> 20,
   suspiciousBotWashTrades |-> 0, flashLoanExploits |-> 0,
   consistentLiquidityAdditions |-> TRUE, stableLaunchHistory |-> TRUE,
   holderGrowthQuality |-> TRUE]

isRateLimited == interventionCounter >= MaxInterventionsPerHour

\* every timer that was due before now has run: the event loop runs a timer
\* before anything that happens later than its deadline
TimersRun == \A i \in 1..Len(timers) : timers[i] >= now

\* a call on the orchestrator starts in frame c
OrchStarts(serial, c) ==
  /\ Starts(serial, c)
  /\ TimersRun
  /\ Len(tokenStates[TokenMint].transitionHistory) < MaxHistory

\* length of the rug history recorded for the token's creator
rugCount == Len(records[PlaceholderDev].rugDetections)

\* initialize(): initializeToken, then await getPoolsWithPrices.  It replaces
\* the TokenState and HavocStatus objects, so the model starts it only when
\* no call holds the old ones.
initialize(serial) ==
  \E c \in CallIds :
    /\ Starts(serial, c)
    /\ NoneInFlight
    /\ TimersRun
    /\ tokenStates' = [tokenStates EXCEPT ![TokenMint] = NewTokenState(ConfigLaunchTime)]
    /\ calls' = [calls EXCEPT ![c] =
                   [Frame("initialize", TokenMint, "-") EXCEPT !.pc = "i_pools"]]
    /\ UNCHANGED <<now, busVars, mmVars, mlVars, orchVars>>

\* initialize() resumes with the pools (none found, or the lookup threw: false)
initializePools(c, found) ==
  LET f == calls[c]
  IN /\ f.pc = "i_pools"
     /\ TimersRun
     /\ statusMap' = IF found THEN NewStatus ELSE statusMap
     /\ calls' = [calls EXCEPT ![c] = Returned(f, IF found THEN "true" ELSE "false")]
     /\ UNCHANGED <<now, tokenStates, busVars, mmVars, mlVars, interventionCounter, timers, records,
                    actionLog>>

\* tick(mayhemSignal) up to its first await: the status lookup and the
\* synchronous part of stateMachine.enterCooldown
tick(serial, mayhemSignal) ==
  \E c \in CallIds :
    /\ OrchStarts(serial, c)
    /\ Len(actionLog) < MaxLog
    /\ LET f == [Frame("tick", TokenMint, mayhemSignal) EXCEPT !.mark = rugCount]
           r == smMethod(f, "enterCooldown", TokenMint, "-")
       IN IF statusMap = NoStatus
            THEN /\ calls' = [calls EXCEPT ![c] = Returned(f, "null")]
                 /\ UNCHANGED tokenStates
            ELSE /\ tokenStates' = [tokenStates EXCEPT ![TokenMint] = r[1]]
                 /\ calls' = [calls EXCEPT ![c] =
                                IF r[2].pc = "threw" THEN Returned(r[2], "null") ELSE r[2]]
    /\ UNCHANGED <<now, busVars, mmVars, mlVars, orchVars>>

\* tick resumes after enterCooldown with the result of fetchPoolState
\* (found = FALSE: no pool, or the lookup threw), then checks the rate limit;
\* the returned frame keeps which of the two made it return null
tickPoolState(c, found) ==
  LET f == calls[c]
  IN /\ f.op = "tick" /\ f.sub = "enterCooldown" /\ f.pc = "sm_ret"
     /\ TimersRun
     /\ calls' = [calls EXCEPT ![c] =
                    IF ~found THEN Returned([f EXCEPT !.sub = "fetchPoolState"], "null")
                    ELSE IF isRateLimited
                      THEN Returned([f EXCEPT !.sub = "isRateLimited"], "null")
                      ELSE [f EXCEPT !.pc = "t_cri"]]
     /\ UNCHANGED <<now, tokenStates, busVars, mmVars, mlVars, orchVars>>

\* tick resumes with the CRI input and calls cri.evaluate
tickEvaluate(c) ==
  LET f == calls[c]
      e == evaluate(buildCRIInput)
  IN /\ f.op = "tick" /\ f.pc = "t_cri"
     /\ TimersRun
     /\ records' = [records EXCEPT ![PlaceholderDev] = e[1]]
     /\ calls' = [calls EXCEPT ![c] = [f EXCEPT !.pc = "t_band", !.band = e[2]]]
     /\ UNCHANGED <<now, tokenStates, busVars, mmVars, mlVars, statusMap, interventionCounter, timers,
                    actionLog>>

\* tick calls mm.decideAction, which logs the action, and awaits it
decided(f) ==
  [f EXCEPT !.pc = "t_record", !.sub = "decideAction",
            !.action = decideAction(fetchPoolState, f.band, f.arg)]

\* tick resumes with the band: on a band change it calls
\* stateMachine.transitionOnCRIChange, otherwise it goes on to decide
tickBand(c) ==
  LET f == calls[c]
      r == smMethod(f, "transitionOnCRIChange", TokenMint, f.band)
  IN /\ f.op = "tick" /\ f.pc = "t_band"
     /\ TimersRun
     /\ IF f.band # statusMap.criband
          THEN /\ tokenStates' = [tokenStates EXCEPT ![TokenMint] = r[1]]
               /\ calls' = [calls EXCEPT ![c] =
                              IF r[2].pc = "threw" THEN Returned(r[2], "null") ELSE r[2]]
               /\ UNCHANGED actionLog
          ELSE /\ calls' = [calls EXCEPT ![c] = decided(f)]
               /\ actionLog' = Append(actionLog, MMAction(decided(f).action))
               /\ UNCHANGED tokenStates
     /\ UNCHANGED <<now, busVars, mmVars, mlVars, statusMap, interventionCounter, timers, records>>

\* tick resumes with the state transitionOnCRIChange returned, stores it and
\* the band in the status, and goes on to decide
tickAfterTransition(c) ==
  LET f == calls[c]
  IN /\ f.op = "tick" /\ f.sub = "transitionOnCRIChange" /\ f.pc = "sm_ret"
     /\ TimersRun
     /\ statusMap' = [statusMap EXCEPT !.state = tokenStates[TokenMint].currentState,
                                       !.criband = f.band]
     /\ calls' = [calls EXCEPT ![c] = decided(f)]
     /\ actionLog' = Append(actionLog, MMAction(decided(f).action))
     /\ UNCHANGED <<now, tokenStates, busVars, mmVars, mlVars, interventionCounter, timers, records>>

\* recordInterventionForRateLimit: count the intervention, reset the counter in an hour
recordInterventionForRateLimit ==
  /\ interventionCounter' = interventionCounter + 1
  /\ timers' = Append(timers, now + RATE_RESET_DELAY)

\* tick resumes with the action, records it and returns it
tickRecord(c) ==
  LET f == calls[c]
  IN /\ f.op = "tick" /\ f.pc = "t_record"
     /\ TimersRun
     /\ IF f.action # "NO_ACTION"
          THEN /\ statusMap' = [statusMap EXCEPT !.totalActions = @ + 1,
                                                 !.lastUpdate = now]
               /\ recordInterventionForRateLimit
          ELSE /\ statusMap' = [statusMap EXCEPT !.lastUpdate = now]
               /\ UNCHANGED <<interventionCounter, timers>>
     /\ calls' = [calls EXCEPT ![c] = Returned(f, f.action)]
     /\ UNCHANGED <<now, tokenStates, busVars, mmVars, mlVars, records, actionLog>>

\* a setTimeout callback of recordInterventionForRateLimit runs
timerFires ==
  /\ timers # <<>>
  /\ Head(timers) <= now
  /\ interventionCounter' = 0
  /\ timers' = Tail(timers)
  /\ UNCHANGED <<now, tokenStates, calls, busVars, mmVars, mlVars, statusMap, records, actionLog>>

\* HavocOrchestrator.onRugDetected / terminate up to the first await: the call
\* of the state machine method; what it throws is caught and logged
hookCall(serial, op, sub, arg) ==
  \E c \in CallIds :
    /\ OrchStarts(serial, c)
    /\ LET f == [Frame(op, TokenMint, arg) EXCEPT !.mark = rugCount]
           r == smMethod(f, sub, TokenMint, arg)
       IN /\ tokenStates' = [tokenStates EXCEPT ![TokenMint] = r[1]]
          /\ calls' = [calls EXCEPT ![c] =
                         IF r[2].pc = "threw" THEN [r[2] EXCEPT !.pc = "caught"] ELSE r[2]]
    /\ UNCHANGED <<now, busVars, mmVars, mlVars, orchVars>>

havocOnRugDetected(serial, severity) ==
  /\ severity \in Severities
  /\ hookCall(serial, "havoc.onRugDetected", "onRugDetected", severity)

havocTerminate(serial, reason) ==
  /\ reason \in Reasons
  /\ hookCall(serial, "havoc.terminate", "terminate", reason)

\* onRugDetected / terminate of the orchestrator returns (void)
hookReturn(c) ==
  LET f == calls[c]
  IN /\ f.op \in {"havoc.onRugDetected", "havoc.terminate"}
     /\ f.pc \in {"sm_ret", "caught"}
     /\ TimersRun
     /\ calls' = [calls EXCEPT ![c] = Returned(f, "void")]
     /\ UNCHANGED <<now, tokenStates, busVars, mmVars, mlVars, orchVars>>

(***************************************************************************)
(* Pattern detector (src/unnamed/part_004), one mint                       *)
(***************************************************************************)
\* pattern types, transition labels and magnitudes (hundredths) a caller records
PatternTypes == {"VOLUME"}
Labels == {"ACTION_A", "ACTION_B"}
Magnitudes == {10, 50}
Lookaheads == 1..MaxLookahead
\* patterns.get(key) === undefined
NoPattern == [observations |-> <<>>, lastUpdate |-> 0]
\* confidences are in 1/4200: 0.9 / (1 + 0.5 k) = 9 / (5 (2 + k)) is a whole
\* number of them for every k up to 8
ConfidenceScale == 42 * 100

\* mutant of recordMagnitude: a full stream keeps its oldest observations
recordMagnitude_keepOldest(patternType, magnitude) ==
  /\ patterns' =
       [patterns EXCEPT ![patternType] =
          [observations |->
             SubSeq(Append(@.observations, magnitude), 1,
                    Min(Len(@.observations) + 1, OBSERVATIONS_CAP)),
           lastUpdate |-> now]]
  /\ UNCHANGED <<transitions, history>>

\* recordMagnitude(mint, patternType, magnitude)
recordMagnitude(patternType, magnitude) ==
  /\ patterns' =
       [patterns EXCEPT ![patternType] =
          [observations |-> LastN(Append(@.observations, magnitude), OBSERVATIONS_CAP),
           lastUpdate |-> now]]
  /\ UNCHANGED <<transitions, history>>

\* chain.set(transitionKey, (chain.get(transitionKey) ?? 0) + 1): a Map keeps
\* its keys in insertion order
chainSet(chain, from, to) ==
  IF \E i \in 1..Len(chain) : chain[i].from = from /\ chain[i].to = to
    THEN [i \in 1..Len(chain) |->
            IF chain[i].from = from /\ chain[i].to = to
              THEN [chain[i] EXCEPT !.count = @ + 1] ELSE chain[i]]
    ELSE Append(chain, [from |-> from, to |-> to, count |-> 1])

\* recordTransition(mint, from, to)
recordTransition(from, to) ==
  /\ transitions' = chainSet(transitions, from, to)
  /\ history' = LastN(Append(history, to), HISTORY_CAP)
  /\ UNCHANGED patterns

RECURSIVE highestCount(_, _, _, _)
\* the loop of predictNextAction over chain.entries(): the first transition
\* from lastAction with the highest count
highestCount(chain, lastAction, maxProb, nextAction) ==
  IF chain = <<>> THEN nextAction
  ELSE IF Head(chain).from = lastAction /\ Head(chain).count > maxProb
         THEN highestCount(Tail(chain), lastAction, Head(chain).count, Head(chain).to)
         ELSE highestCount(Tail(chain), lastAction, maxProb, nextAction)

\* predictNextAction(mint)
predictNextAction ==
  IF history = <<>> \/ transitions = <<>> THEN "null"
  ELSE highestCount(transitions, history[Len(history)], 0, "null")

\* getTransitionProbabilities(mint, fromState): without a chain the empty
\* list; with one, `.filter((_, key) => key.startsWith(...))` is called with
\* the index as key, and a number has no startsWith: TypeError
getTransitionProbabilities(fromState) ==
  IF transitions = <<>> THEN [threw |-> FALSE, results |-> <<>>]
  ELSE [threw |-> TRUE, results |-> <<>>]

RECURSIVE Sum(_)
Sum(s) == IF s = <<>> THEN 0 ELSE Head(s) + Sum(Tail(s))

\* forecastMagnitude returns null
NoForecast == [isNull |-> TRUE, forecast |-> 0, confidence |-> 0]

\* forecastMagnitude(mint, patternType, lookaheadSteps): null or the clamped
\* forecast (hundredths, rounded down) and the confidence.  With n
\* observations y, X[i] = 2 (i - xMean) and Y[i] = n (y[i] - yMean):
\* numerator = N / 2n, denominator = D / 4, slope = 2 N / (n D) and
\* forecast = (S D + N (n - 1 + 2 k)) / (n D)
forecastMagnitude(patternType, lookaheadSteps) ==
  LET entry == patterns[patternType]
      obs == LastN(entry.observations, REGRESSION_WINDOW)
      n == Len(obs)
      S == Sum(obs)
      X == [i \in 1..n |-> 2 * (i - 1) - (n - 1)]
      N == Sum([i \in 1..n |-> X[i] * (n * obs[i] - S)])
      D == Sum([i \in 1..n |-> X[i] * X[i]])
      forecast == IF D = 0 THEN S \div n
                  ELSE (S * D + N * (n - 1 + 2 * lookaheadSteps)) \div (n * D)
  IN IF Len(entry.observations) < MIN_FORECAST_OBSERVATIONS THEN NoForecast
     ELSE [isNull |-> FALSE,
           forecast |-> Max(0, Min(forecast, 100)),
           confidence |-> Max((4 * ConfidenceScale) \div 10,
                              (9 * ConfidenceScale) \div (5 * (2 + lookaheadSteps)))]

\* detector.recordMagnitude(...) called directly
pdRecordMagnitude(patternType, magnitude) ==
  /\ Len(patterns[patternType].observations) < MaxObservations
  /\ recordMagnitude(patternType, magnitude)
  /\ UNCHANGED <<now, tokenStates, calls, busVars, orchVars, mmVars,
                 observationHistory, mayhemPatterns, lmVars>>

\* detector.recordTransition(...) called directly
pdRecordTransition(from, to) ==
  /\ Len(history) < MaxTransitions
  /\ recordTransition(from, to)
  /\ UNCHANGED <<now, tokenStates, calls, busVars, orchVars, mmVars,
                 observationHistory, mayhemPatterns, lmVars>>

\* A caller's loops, as in the tests: first recordMagnitude is called
\* StreamLength times with the readings Reading(1), Reading(2), ..., then
\* recordTransition LabelStreamLength times along the cycle of StreamLabels.
\* The caller's frame keeps how many calls the running loop has made.
StreamLength == OBSERVATIONS_CAP + MaxOverflow
LabelStreamLength == HISTORY_CAP + MaxOverflow
Reading(i) == i % 101
StreamLabels == <<"VOLUME_SPIKE", "SPREAD_WIDENING", "PRICE_DUMP">>
Target(i) == StreamLabels[(i % 3) + 1]

feedMagnitude(patternType) ==
  \E c \in CallIds :
    /\ Starts(TRUE, c)
    /\ calls[c].op \in {"none", "recordMagnitude"}
    /\ LET i == IF calls[c].op = "recordMagnitude" THEN calls[c].mark ELSE 0
       IN /\ i < StreamLength
          /\ recordMagnitude(patternType, Reading(i + 1))
          /\ calls' = [calls EXCEPT ![c] =
                         [Returned(Frame("recordMagnitude", TokenMint, "-"), "void")
                            EXCEPT !.sub = patternType, !.mark = i + 1]]
    /\ UNCHANGED <<now, tokenStates, busVars, orchVars, mmVars,
                   observationHistory, mayhemPatterns, lmVars>>

feedTransition ==
  \E c \in CallIds :
    /\ Starts(TRUE, c)
    /\ \/ calls[c].op = "recordMagnitude" /\ calls[c].mark = StreamLength
       \/ calls[c].op = "recordTransition"
    /\ LET i == IF calls[c].op = "recordTransition" THEN calls[c].mark ELSE 0
       IN /\ i < LabelStreamLength
          /\ recordTransition(Target(i), Target(i + 1))
          /\ calls' = [calls EXCEPT ![c] =
                         [Returned(Frame("recordTransition", TokenMint, "-"), "void")
                            EXCEPT !.sub = Target(i + 1), !.mark = i + 1]]
    /\ UNCHANGED <<now, tokenStates, busVars, orchVars, mmVars,
                   observationHistory, mayhemPatterns, lmVars>>

\* detector.predictNextAction(mint) called directly; the frame keeps how many
\* transitions had been recorded
pdPredictNextAction ==
  \E c \in CallIds :
    /\ Starts(TRUE, c)
    /\ calls' = [calls EXCEPT ![c] =
                   [Returned(Frame("predictNextAction", TokenMint, "-"), predictNextAction)
                      EXCEPT !.sub = "predictNextAction", !.mark = Len(history)]]
    /\ UNCHANGED <<now, tokenStates, busVars, orchVars, mmVars, mlVars>>

\* detector.getTransitionProbabilities(mint, fromState) called directly
pdGetTransitionProbabilities(fromState) ==
  \E c \in CallIds :
    /\ Starts(TRUE, c)
    /\ LET r == getTransitionProbabilities(fromState)
       IN calls' = [calls EXCEPT ![c] =
                      [Returned(Frame("getTransitionProbabilities", TokenMint, fromState),
                                IF r.threw THEN "TypeError" ELSE "array")
                         EXCEPT !.sub = "getTransitionProbabilities", !.arg = fromState,
                                !.log = r.results]]
    /\ UNCHANGED <<now, tokenStates, busVars, orchVars, mmVars, mlVars>>

\* detector.forecastMagnitude(mint, patternType, lookaheadSteps) called
\* directly; the frame keeps the lookahead and the result
pdForecastMagnitude(patternType, lookaheadSteps) ==
  \E c \in CallIds :
    /\ Starts(TRUE, c)
    /\ LET r == forecastMagnitude(patternType, lookaheadSteps)
       IN calls' = [calls EXCEPT ![c] =
                      [Returned(Frame("forecastMagnitude", TokenMint, patternType),
                                IF r.isNull THEN "null" ELSE "forecast")
                         EXCEPT !.sub = "forecastMagnitude", !.arg = patternType,
                                !.mark = lookaheadSteps,
                                !.log = IF r.isNull THEN <<>> ELSE <<r>>]]
    /\ UNCHANGED <<now, tokenStates, busVars, orchVars, mmVars, mlVars>>

(***************************************************************************)
(* Mayhem intelligence (src/src/havoc/mayhem-intelligence.ts), one mint    *)
(***************************************************************************)
\* MayhemObservation.actionType
ActionTypes == {"VOLUME_SPIKE", "SPREAD_WIDENING", "PRICE_DUMP", "BOT_ACTIVITY"}
\* the action types and magnitudes (hundredths) an observer reports
ObservedActionTypes == {"SPREAD_WIDENING", "PRICE_DUMP"}
ObservedMagnitudes == {60}
\* the instants the Mayhem clock is observed at
MayhemTimePoints == {h * RECENT_WINDOW : h \in 0..MaxMinutes}
\* patterns.get(patternKey) === undefined
NoMayhemPattern == [frequency |-> 0, avgMagnitude |-> 0]

\* the observation an observer reports now (predictedDuration in seconds)
MayhemObservation(actionType, magnitude) ==
  [timestamp |-> now, actionType |-> actionType, magnitude |-> magnitude,
   predictedDuration |-> 10]

\* recordObservation(observation); avgMagnitude in hundredths, rounded down
recordObservation(observation) ==
  /\ observationHistory' =
       LastN(Append(observationHistory, observation), OBSERVATION_HISTORY_CAP)
  /\ mayhemPatterns' =
       [mayhemPatterns EXCEPT ![observation.actionType] =
          [frequency |-> @.frequency + 1,
           avgMagnitude |->
             (@.avgMagnitude * @.frequency + observation.magnitude)
               \div (@.frequency + 1)]]

\* anticipateNextChaos returns null
NoAnticipation ==
  [isNull |-> TRUE, expectedChaosLevel |-> 0, likelyDuration |-> 0,
   recommendedAction |-> "null", confidence |-> 0]

\* anticipateNextChaos(mint): null or the signal (levels and confidence in
\* hundredths, durations in seconds)
anticipateNextChaos ==
  LET recentSpikes == Cardinality({i \in 1..Len(observationHistory) :
                                     now - observationHistory[i].timestamp < RECENT_WINDOW})
      total == Sum([i \in 1..Len(observationHistory) |-> observationHistory[i].magnitude])
      spreadWideningFreq == mayhemPatterns["SPREAD_WIDENING"].frequency
  IN IF Len(observationHistory) < 3 THEN NoAnticipation
     ELSE IF recentSpikes > 2
       THEN [isNull |-> FALSE,
             expectedChaosLevel |->
               Min((total * 12) \div (Len(observationHistory) * 10), 100),
             likelyDuration |-> 30,
             recommendedAction |-> "PREPARE_BUFFERING",
             confidence |-> Min(recentSpikes * 20, 95)]
     ELSE IF spreadWideningFreq > 3
       THEN [isNull |-> FALSE,
             expectedChaosLevel |-> 50,
             likelyDuration |-> 20,
             recommendedAction |-> "TIGHTEN_SPREADS",
             confidence |-> 70]
     ELSE NoAnticipation

\* intelligence.recordObservation(...) called directly with timestamp Date.now()
miRecordObservation(actionType, magnitude) ==
  /\ Len(observationHistory) < MaxMayhemObservations
  /\ recordObservation(MayhemObservation(actionType, magnitude))
  /\ UNCHANGED <<now, tokenStates, calls, busVars, orchVars, mmVars,
                 patterns, transitions, history, lmVars>>

\* intelligence.anticipateNextChaos(mint) called directly; the frame keeps the
\* number of SPREAD_WIDENING observations recorded and the signal
miAnticipateNextChaos ==
  \E c \in CallIds :
    /\ Starts(TRUE, c)
    /\ LET r == anticipateNextChaos
       IN calls' = [calls EXCEPT ![c] =
                      [Returned(Frame("anticipateNextChaos", TokenMint, "-"),
                                r.recommendedAction)
                         EXCEPT !.sub = "anticipateNextChaos",
                                !.mark = mayhemPatterns["SPREAD_WIDENING"].frequency,
                                !.log = IF r.isNull THEN <<>> ELSE <<r>>]]
    /\ UNCHANGED <<now, tokenStates, busVars, orchVars, mmVars, mlVars>>

\* time passes between two calls of the intelligence module
miWait ==
  /\ \E t \in MayhemTimePoints : t > now /\ now' = t
  /\ UNCHANGED <<tokenStates, calls, busVars, mmVars, mlVars, orchVars>>

(***************************************************************************)
(* Liquidity manager (amounts in thousandths of a SOL)                     *)
(***************************************************************************)
LiquidityMints == {"m1"}
\* budgets.get(mintKey) of a mint without budget
NoBudget ==
  [isSet |-> FALSE, totalBudgetSol |-> 0, usedSol |-> 0, hourlyRemaining |-> 0,
   blockCap |-> 0, blockUsed |-> 0]

LiquidityOrder(side, amount, priority) ==
  [side |-> side, amount |-> amount, price |-> 0, priority |-> priority,
   timestamp |-> now]

getSpreadTarget(criband) ==
  IF criband = "GUARDIAN" THEN [minBps |-> 10, maxBps |-> 100, currentBps |-> 0, targetBps |-> 25]
  ELSE IF criband = "NEUTRAL"
    THEN [minBps |-> 25, maxBps |-> 200, currentBps |-> 0, targetBps |-> 75]
    ELSE [minBps |-> 50, maxBps |-> 300, currentBps |-> 0, targetBps |-> 150]

\* a buy and a sell of 5% of the native reserves each (native in whole SOL)
calculateBridgingOrders(poolState, target) ==
  LET bridgeAmount == (poolState.liquidity.native * 100) \div 2
  IN <<LiquidityOrder("buy", bridgeAmount, "high"),
       LiquidityOrder("sell", bridgeAmount, "high")>>

totalCost(orders) == Sum([i \in 1..Len(orders) |-> orders[i].amount])

canExecute(mintKey, orders) ==
  LET budget == budgets[mintKey]
  IN IF ~budget.isSet THEN TRUE
     ELSE IF budget.usedSol + totalCost(orders) > budget.totalBudgetSol THEN FALSE
     ELSE IF budget.blockUsed >= budget.blockCap THEN FALSE
     ELSE TRUE

\* Gives <<orderHistory, budgets>> after the orders are recorded.
recordOrders(mintKey, orders) ==
  LET budget == budgets[mintKey]
  IN <<[orderHistory EXCEPT ![mintKey] = LastN(@ \o orders, ORDER_HISTORY_CAP)],
       IF budget.isSet
         THEN [budgets EXCEPT ![mintKey] =
                 [budget EXCEPT !.usedSol = @ + totalCost(orders),
                                !.blockUsed = @ + Len(orders)]]
         ELSE budgets>>

setBudget(mint, budgetSol, blockCap) ==
  /\ budgets' = [budgets EXCEPT ![mint] =
                   [isSet |-> TRUE, totalBudgetSol |-> budgetSol, usedSol |-> 0,
                    hourlyRemaining |-> budgetSol, blockCap |-> blockCap,
                    blockUsed |-> 0]]
  /\ UNCHANGED <<now, tokenStates, calls, busVars, mmVars, orchVars, patterns, transitions,
                 history, observationHistory, mayhemPatterns, orderHistory>>

\* The frame of an order-placing call that has returned: it keeps the
\* budget's blockUsed before the call and the orders returned
\* (ret "skipped": [] before canExecute is asked; "rejected": [] because
\* canExecute refused; "orders": the orders recorded).
OrdersFrame(op, mint, criband, ret, orders) ==
  [Returned([Frame(op, mint, "-") EXCEPT !.sub = op], ret)
     EXCEPT !.band = criband, !.mark = budgets[mint].blockUsed, !.log = orders]

\* The rest of an order-placing call in frame c, `early` being its early
\* return: otherwise the orders are recorded and returned when canExecute
\* allows them, and nothing is recorded and [] returned when it does not.
placeOrders(c, op, mint, criband, early, orders) ==
  LET ok == ~early /\ canExecute(mint, orders)
      rec == recordOrders(mint, orders)
  IN /\ orderHistory' = IF ok THEN rec[1] ELSE orderHistory
     /\ budgets' = IF ok THEN rec[2] ELSE budgets
     /\ calls' = [calls EXCEPT ![c] =
                    OrdersFrame(op, mint, criband,
                                IF early THEN "skipped"
                                ELSE IF ok THEN "orders" ELSE "rejected",
                                IF ok THEN orders ELSE <<>>)]

\* compressSpread has no await before its return: it runs in one step
compressSpread(mint, poolState, criband) ==
  \E c \in CallIds :
    /\ Starts(TRUE, c)
    /\ Len(orderHistory[mint]) < MaxOrders
    /\ LET target == getSpreadTarget(criband)
       IN placeOrders(c, "compressSpread", mint, criband,
                      poolState.spreadBps <= target.minBps,
                      calculateBridgingOrders(poolState, target))
    /\ UNCHANGED <<now, tokenStates, busVars, mmVars, orchVars, patterns, transitions,
                   history, observationHistory, mayhemPatterns>>

\* smoothVolume(mint, volumeAnomaly, criband), volumeAnomaly in percent
smoothVolume(mint, volumeAnomaly, criband) ==
  \E c \in CallIds :
    /\ Starts(TRUE, c)
    /\ Len(orderHistory[mint]) < MaxOrders
    /\ LET deploymentScale ==
             IF criband = "GUARDIAN" THEN 10 ELSE IF criband = "NEUTRAL" THEN 6 ELSE 2
           deploymentAmount == volumeAnomaly * deploymentScale
       IN placeOrders(c, "smoothVolume", mint, criband,
                      volumeAnomaly < MIN_VOLUME_ANOMALY,
                      <<LiquidityOrder("buy", deploymentAmount, "high")>>)
    /\ UNCHANGED <<now, tokenStates, busVars, mmVars, orchVars, patterns, transitions,
                   history, observationHistory, mayhemPatterns>>

(***************************************************************************)
(* Specifications                                                          *)
(***************************************************************************)
InitWith(input) ==
  /\ now = 0
  /\ tokenStates = [m \in Mints |-> NoToken]
  /\ calls = [c \in CallIds |-> IdleFrame]
  /\ emitted = <<>>
  /\ statusMap = NoStatus
  /\ interventionCounter = 0
  /\ timers = <<>>
  /\ records = [d \in Devs |-> NoRecord]
  /\ actionLog = <<>>
  /\ lastActionTime = [p \in PoolIds |-> NoTime]
  /\ listeners = [t \in EventTypes |-> <<>>]
  /\ received = [l \in ListenerFns |-> <<>>]
  /\ unsubscribers = {}
  /\ mmInput = input
  /\ patterns = [t \in PatternTypes |-> NoPattern]
  /\ transitions = <<>>
  /\ history = <<>>
  /\ observationHistory = <<>>
  /\ mayhemPatterns = [t \in ActionTypes |-> NoMayhemPattern]
  /\ budgets = [m \in LiquidityMints |-> NoBudget]
  /\ orderHistory = [m \in LiquidityMints |-> <<>>]

\* the state after construction
Init == InitWith(NoInput)

\* ... with the input a direct caller of the decision engine holds
InitMM == \E input \in MMInputs : InitWith(input)

NextSM(serial, ms) ==
  \/ \E m \in ms, lt \in {0, now} : initializeToken(serial, m, lt)
  \/ \E m \in ms, b \in CRIBands : transitionOnCRIChange(serial, m, b)
  \/ \E m \in ms, s \in Severities : onRugDetected(serial, m, s)
  \/ \E m \in ms : enterCooldown(serial, m)
  \/ \E m \in ms, r \in Reasons : terminate(serial, m, r)
  \/ \E c \in CallIds : afterExitHandler(c)
  \/ \E c \in CallIds : smReturn(c)
  \/ Advance

Next == NextSM(TRUE, {"m1"})

\* the state machine, its methods called one at a time
Spec == Init /\ [][Next]_vars

\* the state machine of one entity, methods called while others are in flight
SpecOverlap == Init /\ [][NextSM(FALSE, {"m1"})]_vars

\* the state machine tracking two entities, its methods called one at a time
\* on either of them, the clock moving once, to the 24 h mark
NextEntities ==
  \/ \E m \in Mints : initializeToken(TRUE, m, 0)
  \/ \E m \in Mints, b \in {"GUARDIAN", "NEUTRAL"} : transitionOnCRIChange(TRUE, m, b)
  \/ \E m \in Mints : onRugDetected(TRUE, m, 50)
  \/ \E m \in Mints : enterCooldown(TRUE, m)
  \/ \E m \in Mints : terminate(TRUE, m, "MANUAL")
  \/ \E c \in CallIds : afterExitHandler(c)
  \/ \E c \in CallIds : smReturn(c)
  \/ now = 0 /\ Advance /\ now' = COOLDOWN_THRESHOLD

SpecEntities == Init /\ [][NextEntities]_vars

\* ticks of the orchestrator of one token, initialized until it succeeds
NextTicks(serial, signals) ==
  \/ statusMap = NoStatus /\ initialize(serial)
  \/ \E c \in CallIds, found \in BOOLEAN : initializePools(c, found)
  \/ \E sig \in signals : tick(serial, sig)
  \/ \E c \in CallIds, found \in BOOLEAN : tickPoolState(c, found)
  \/ \E c \in CallIds : tickEvaluate(c)
  \/ \E c \in CallIds : tickBand(c)
  \/ \E c \in CallIds : tickAfterTransition(c)
  \/ \E c \in CallIds : tickRecord(c)
  \/ \E c \in CallIds : afterExitHandler(c)
  \/ timerFires
  \/ Advance

\* the rug-detection hook and terminate of the orchestrator
NextHooks(serial) ==
  \/ \E s \in Severities : havocOnRugDetected(serial, s)
  \/ \E r \in Reasons : havocTerminate(serial, r)
  \/ \E c \in CallIds : hookReturn(c)

\* the orchestrator of one token, its methods called one at a time
SpecOrch == Init /\ [][NextTicks(TRUE, Signals) \/ NextHooks(TRUE)]_vars

\* the orchestrator of one token, ticks started while other ticks are in flight
SpecTickOverlap == Init /\ [][NextTicks(FALSE, {NoSignal})]_vars

\* the decision engine called directly with one input, between calls of
\* recordAction and getActionLog, the clock moving once, by half an hour
NextMM ==
  \/ mmDecideAction(mmInput)
  \/ \E p \in PoolIds : recordAction(p)
  \/ \E limit \in 0..MaxDecisions : mmGetActionLog(limit)
  \/ now = 0 /\ Advance /\ now' = HalfHour

SpecMM == InitMM /\ [][NextMM]_vars

\* publishers and subscribers of the event bus
NextBus ==
  \/ \E t \in ObservedTypes, l \in TypedFns : on(t, l)
  \/ \E t \in ObservedTypes, l \in TypedFns : once(t, l)
  \/ \E l \in AnyFns : onAny(l)
  \/ \E u \in unsubscribers : unsubscribe(u)
  \/ \E t \in ObservedTypes : emit(t)

SpecBus == Init /\ [][NextBus]_vars

\* the reputation index called directly for one dev, time passing between calls
NextCRI ==
  \/ \E d \in EvaluatedDevs : \E input \in Evidence(d) : criEvaluate(input)
  \/ \E d \in EvaluatedDevs : \E severity \in RugSeverities :
       criRecordRugDetection(d, severity)
  \/ criWait

SpecCRI == Init /\ [][NextCRI]_vars

\* the pattern detector called directly
NextPattern ==
  \/ \E t \in PatternTypes, m \in Magnitudes : pdRecordMagnitude(t, m)
  \/ \E from \in Labels, to \in Labels : pdRecordTransition(from, to)
  \/ pdPredictNextAction
  \/ \E from \in Labels : pdGetTransitionProbabilities(from)
  \/ \E t \in PatternTypes, k \in Lookaheads : pdForecastMagnitude(t, k)

SpecPattern == Init /\ [][NextPattern]_vars

\* the pattern detector fed by a caller's loops until its streams overflow
NextStreams ==
  \/ \E t \in PatternTypes : feedMagnitude(t)
  \/ feedTransition

SpecStreams == Init /\ [][NextStreams]_vars

\* the Mayhem intelligence module called directly, time passing between calls
NextMayhem ==
  \/ \E t \in ObservedActionTypes, m \in ObservedMagnitudes : miRecordObservation(t, m)
  \/ miAnticipateNextChaos
  \/ miWait

SpecMayhem == Init /\ [][NextMayhem]_vars

\* the liquidity manager called directly for one mint
LiquidityPoolStates ==
  {[spreadBps |-> b, liquidity |-> [native |-> 2]] : b \in {10, 120}}
VolumeAnomalies == {10, 20}
BudgetsSol == {2000}
BlockCaps == {1, 5}

NextLiquidity ==
  \/ \E m \in LiquidityMints, b \in BudgetsSol, cap \in BlockCaps : setBudget(m, b, cap)
  \/ \E m \in LiquidityMints, p \in LiquidityPoolStates, band \in CRIBands :
       compressSpread(m, p, band)
  \/ \E m \in LiquidityMints, v \in VolumeAnomalies, band \in CRIBands :
       smoothVolume(m, v, band)

SpecLiquidity == Init /\ [][NextLiquidity]_vars

(***************************************************************************)
(* Claims about the state machine                                          *)
(***************************************************************************)
\* frame c took a step
Stepped(c) == calls'[c] # calls[c]
\* frame c started a call of a transition request in this step
Requested(c) ==
  /\ Free(c)
  /\ Stepped(c)
  /\ calls'[c].sub \in {"transitionOnCRIChange", "onRugDetected", "enterCooldown", "terminate"}
\* the last record of a transition history
LastOf(h) == h[Len(h)]

\* C1: TERMINATED is absorbing: once an entity's state is TERMINATED, no later
\* call on the state machine makes it anything else.
C1_TerminatedAbsorbing ==
  [][\A m \in Mints :
       tokenStates[m].currentState = "TERMINATED"
         => tokenStates'[m].currentState = "TERMINATED"]_vars

\* C2: a transition request on a TERMINATED entity fails visibly (the call
\* throws) and leaves the entity's state and history as they were.
C2_TerminatedRequestRejected ==
  [][\A c \in CallIds :
       (Requested(c) /\ tokenStates[calls'[c].mint].currentState = "TERMINATED")
         => /\ calls'[c].pc = "done"
            /\ calls'[c].ret = "error"
            /\ tokenStates'[calls'[c].mint].currentState = "TERMINATED"
            /\ tokenStates'[calls'[c].mint].transitionHistory
                 = tokenStates[calls'[c].mint].transitionHistory]_vars

\* C3: every accepted transition publishes exactly one STATE_TRANSITION event
\* carrying its from-state, to-state and trigger, and nothing is published
\* when the state does not change.
C3_TransitionPublishesEvent ==
  [][\A m \in Mints :
       LET old == tokenStates[m]
           new == tokenStates'[m]
       IN IF Len(new.transitionHistory) = Len(old.transitionHistory) + 1
            THEN emitted' = Append(emitted,
                   [type |-> "STATE_TRANSITION", mint |-> m,
                    fromState |-> LastOf(new.transitionHistory).from,
                    toState |-> LastOf(new.transitionHistory).to,
                    triggeredBy |-> LastOf(new.transitionHistory).triggeredBy])
            ELSE new.currentState = old.currentState => emitted' = emitted]_vars

\* C4: a step of a transition request that changes the entity's state appends
\* exactly one record, with from = the state before, to = the state after and
\* the trigger of the request; a step of a band change, a rug detection or an
\* enterCooldown that leaves the state unchanged appends no record.
C4_TransitionRecorded ==
  [][\A c \in CallIds :
       (Stepped(c) /\ calls'[c].op # "initializeToken")
         => LET m == calls'[c].mint
                old == tokenStates[m]
                new == tokenStates'[m]
            IN /\ new.currentState # old.currentState
                    => new.transitionHistory =
                         Append(old.transitionHistory,
                                [from |-> old.currentState, to |-> new.currentState,
                                 timestamp |-> now, triggeredBy |-> calls'[c].trigger])
               /\ (new.currentState = old.currentState /\ calls'[c].sub # "terminate")
                    => new.transitionHistory = old.transitionHistory]_vars

\* C4: a band change to ADVERSARIAL was recorded and a later rug detection,
\* which left the state unchanged, has returned without adding a record
C4_Witness ==
  /\ tokenStates["m1"].currentState = "ADVERSARIAL"
  /\ Len(tokenStates["m1"].transitionHistory) = 1
  /\ tokenStates["m1"].transitionHistory[1].triggeredBy = "CRI_CHANGE"
  /\ calls[1].sub = "onRugDetected" /\ calls[1].pc = "done"
  /\ calls[1].ret = "ADVERSARIAL"

ActiveStates == HavocStates \ {"TERMINATED"}

\* C5: onRugDetected on an initialized, non-terminated entity leaves it in
\* ADVERSARIAL (and returns ADVERSARIAL); when the state changed, the record
\* appended has trigger RUG_DETECTED and to = ADVERSARIAL.
C5_RugLeadsToAdversarial ==
  [][\A c \in CallIds :
       (Stepped(c) /\ calls'[c].sub = "onRugDetected")
         => LET m == calls'[c].mint
                old == tokenStates[m]
                new == tokenStates'[m]
            IN /\ (Free(c) /\ old.currentState \in ActiveStates)
                    => \/ new.currentState = "ADVERSARIAL"
                       \/ calls'[c].pc = "pt_exit" /\ calls'[c].to = "ADVERSARIAL"
               /\ calls[c].pc = "pt_exit" => new.currentState = "ADVERSARIAL"
               /\ (calls'[c].pc = "done" /\ calls'[c].ret # "error")
                    => new.currentState = "ADVERSARIAL" /\ calls'[c].ret = "ADVERSARIAL"
               /\ new.currentState # old.currentState
                    => /\ Len(new.transitionHistory) = Len(old.transitionHistory) + 1
                       /\ LastOf(new.transitionHistory).triggeredBy = "RUG_DETECTED"
                       /\ LastOf(new.transitionHistory).to = "ADVERSARIAL"]_vars

\* C5: a rug detection on an entity in GUARDIAN has returned
C5_Witness ==
  /\ calls[1].sub = "onRugDetected" /\ calls[1].pc = "done"
  /\ calls[1].ret = "ADVERSARIAL"
  /\ tokenStates["m1"].currentState = "ADVERSARIAL"
  /\ Len(tokenStates["m1"].transitionHistory) = 2
  /\ tokenStates["m1"].transitionHistory[2] =
       [from |-> "GUARDIAN", to |-> "ADVERSARIAL", timestamp |-> now,
        triggeredBy |-> "RUG_DETECTED"]

(***************************************************************************)
(* Claims about the orchestrator                                           *)
(***************************************************************************)
\* frame c, running the orchestrator method op, returns in this step
HookReturns(c, op) ==
  /\ calls[c].op = op
  /\ ~Free(c)
  /\ calls'[c].pc = "done"

\* C6: when the orchestrator's rug-detection hook, called with severity s on
\* an initialized, non-terminated entity whose creator has a reputation
\* record, returns, the creator's rug history holds exactly one more entry
\* than when the hook was called, and that entry has severity s.
C6_RugHookRecordsDetection ==
  [][\A c \in CallIds :
       (/\ HookReturns(c, "havoc.onRugDetected")
        /\ calls[c].prev \in ActiveStates
        /\ records[PlaceholderDev] # NoRecord)
         => /\ Len(records'[PlaceholderDev].rugDetections) = calls[c].mark + 1
            /\ LastOf(records'[PlaceholderDev].rugDetections).severity = calls[c].arg]_vars

\* C7: when the orchestrator's rug-detection hook returns for an initialized,
\* non-terminated entity, the state the status query reports is ADVERSARIAL
\* (calls run one at a time, so no tick ran since the hook was called).
C7_StatusAdversarialAfterRugHook ==
  [][\A c \in CallIds :
       (/\ HookReturns(c, "havoc.onRugDetected")
        /\ calls[c].prev \in ActiveStates
        /\ statusMap # NoStatus)
         => statusMap'.state = "ADVERSARIAL"]_vars

\* C8: at most maxInterventionsPerHour ticks returned an action other than
\* NO_ACTION within the last hour.  Every such tick set, when it returned, a
\* timer due one hour later, so the ticks of the last hour are the pending
\* timers that are due later than now.
C8_RollingHourlyCap ==
  Cardinality({i \in 1..Len(timers) : timers[i] > now}) <= MaxInterventionsPerHour

\* C9: two ticks that returned an action other than NO_ACTION returned at
\* least the cooldown apart.  Calls run one at a time, so the later of two
\* such ticks started after the earlier returned: were they closer, the
\* later one started within the cooldown and still acted.  The return time
\* of an acting tick is the deadline of its timer less one hour.
C9_MinimumInterActionCooldown ==
  \A i, j \in 1..Len(timers) :
    i < j => timers[j] - timers[i] >= ACTION_COOLDOWN

\* C10: with ticks of one entity overlapping in time, the intervention count
\* never exceeds maxInterventionsPerHour.
C10_OverlappingTicksKeepCap ==
  interventionCounter <= MaxInterventionsPerHour

(***************************************************************************)
(* Claims about the decision engine                                        *)
(***************************************************************************)
\* frame c holds the result of a direct decideAction call
Decided(c) == calls[c].op = "decideAction"

C12_AdversarialSynchronizes ==
  \A c \in CallIds :
    (/\ Decided(c)
     /\ calls[c].arg.criband = "ADVERSARIAL"
     /\ calls[c].arg.mayhemSignals.present
     /\ calls[c].arg.mayhemSignals.suggestedSynchronization)
      => calls[c].ret = "EXTRACTION_SUPPRESSION"

\* C12: such a call returned EXTRACTION_SUPPRESSION where the Adversarial
\* policy chose NO_ACTION
C12_Witness ==
  \E c \in CallIds :
    /\ Decided(c)
    /\ calls[c].arg.criband = "ADVERSARIAL"
    /\ calls[c].arg.mayhemSignals.suggestedSynchronization
    /\ policyDecision(calls[c].arg.poolState, "ADVERSARIAL") = "NO_ACTION"
    /\ calls[c].ret = "EXTRACTION_SUPPRESSION"

C14_GuardianBuffersHighVolatility ==
  \A c \in CallIds :
    (/\ Decided(c)
     /\ calls[c].arg.criband = "GUARDIAN"
     /\ calls[c].arg.mayhemSignals.present
     /\ calls[c].arg.mayhemSignals.chaosLevel >= 70
     /\ calls[c].arg.poolState.volatility >= 30)
      => calls[c].ret = "CRASH_BUFFERING"

\* the most recent n entries of log, none for n = 0
MostRecent(log, n) == IF n = 0 THEN <<>> ELSE LastN(log, n)

\* C15: every decideAction call appends exactly the action it returns to the
\* end of the action log, and the array a getActionLog(N) call returned is the
\* most recent N entries (none for N = 0) of the log as it was at the call,
\* which is a prefix of the log now.
C15_ActionLogQuery ==
  /\ [][actionLog' # actionLog
          => \E c \in CallIds :
               /\ calls'[c].op = "decideAction"
               /\ actionLog' = Append(actionLog, [type |-> calls'[c].ret,
                                                  timestamp |-> now])]_vars
  /\ [](\A c \in CallIds :
          calls[c].op = "getActionLog"
            => \E k \in 0..Len(actionLog) :
                 calls[c].log = MostRecent(SubSeq(actionLog, 1, k), calls[c].arg))

\* C16: the transition history of every entity and the action log stay
\* below the lengths that the calls made could fill them to.
C16_LogsBounded ==
  /\ Len(actionLog) < MaxLog
  /\ \A m \in Mints : Len(tokenStates[m].transitionHistory) < MaxHistory

(***************************************************************************)
(* Claims about the orchestrator's error handling                          *)
(***************************************************************************)
\* C17: a tick that finds no market snapshot (and is not rate limited)
\* returns no action without throwing and publishes one ERROR event.
C17_NoSnapshotReported ==
  [][\A c \in CallIds :
       (/\ calls[c].op = "tick" /\ calls[c].sub = "enterCooldown"
        /\ calls[c].pc = "sm_ret"
        /\ calls'[c].pc = "done"
        /\ ~isRateLimited)
         => /\ calls'[c].ret = "null"
            /\ Len(emitted') = Len(emitted) + 1
            /\ emitted'[Len(emitted')].type = "ERROR"]_vars

\* C18: onRugDetected or terminate of the orchestrator, called before
\* initialize has created the entity, ends in an error the caller sees and
\* creates no entity state.
C18_UninitializedSurfaced ==
  [][\A c \in CallIds :
       (/\ calls[c].op \in {"havoc.onRugDetected", "havoc.terminate"}
        /\ calls[c].pc = "caught"
        /\ calls'[c].pc = "done")
         => /\ calls'[c].ret = "error"
            /\ tokenStates'[TokenMint] = NoToken
            /\ statusMap' = NoStatus]_vars

(***************************************************************************)
(* Claims about the event bus                                              *)
(***************************************************************************)
\* the event published in this step
Published == emitted'[Len(emitted')]
\* the number of entries of a listener array that call fn
Count(regs, fn) == Cardinality({i \in 1..Len(regs) : regs[i].fn = fn})
\* the number of entries added by on() that call fn
CountOn(regs, fn) ==
  Cardinality({i \in 1..Len(regs) : regs[i].fn = fn /\ ~regs[i].once /\ ~regs[i].any})
Repeat(e, k) == [i \in 1..k |-> e]
AddedByOnce(r) == r.once
NotAddedByOnce(r) == ~r.once

\* C19: when an event is published, every listener registered for its type
\* is called with it, also when another listener throws, and the emit call
\* returns normally.
C19_FailingSubscriberIsolated ==
  [][emitted' # emitted
       => /\ \A i \in 1..Len(listeners[Published.type]) :
               LET fn == listeners[Published.type][i].fn
               IN Len(received'[fn]) > Len(received[fn])
          /\ \A c \in CallIds : calls'[c].op = "emit" => calls'[c].ret = "void"]_vars

\* C20: an event published is received exactly once by every registration
\* of its type, in the order published, and by nobody else; a registration
\* made with once() is gone after the first event and one made with on()
\* stays; a registration made with on() goes only when the unsubscribe
\* function of that event type and listener is called.
C20_SubscriptionSemantics ==
  [][/\ emitted' # emitted
          => /\ \A fn \in ListenerFns :
                  received'[fn] =
                    received[fn] \o Repeat(Published,
                                           Count(listeners[Published.type], fn))
             /\ listeners'[Published.type] =
                  SelectSeq(listeners[Published.type], NotAddedByOnce)
     /\ \A t \in EventTypes, fn \in TypedFns :
          CountOn(listeners'[t], fn) < CountOn(listeners[t], fn)
            => \E c \in CallIds :
                 /\ calls'[c].op = "unsubscribe"
                 /\ calls'[c].arg = Unsubscriber(t, fn)]_vars

\* the step is a call of the unsubscribe function u = calls'[c].arg: it
\* publishes nothing, and unlike on(), once() and onAny() it adds no listener
Unsubscribed(c) ==
  /\ calls'[c].op = "unsubscribe"
  /\ listeners' # listeners
  /\ \A t \in EventTypes : Len(listeners'[t]) <= Len(listeners[t])
  /\ unsubscribers' = unsubscribers /\ emitted' = emitted

\* the entries of a listener array of type t that the subscriber holding the
\* unsubscribe function u did not register
OthersThan(u, t, regs) ==
  LET other(r) == IF u.kind = "any" THEN ~(r.any /\ r.fn = u.fn)
                  ELSE ~(t = u.type /\ r.fn = u.fn /\ ~r.any)
  IN SelectSeq(regs, other)

\* C40: calling the unsubscribe function returned by on(), once() or onAny()
\* removes only that subscriber's listeners: on every event type the
\* listeners of the others stay in place, in order, and listenerCount drops
\* by at most the one listener the subscriber had on that type.
C40_UnsubscribeRemovesOnlyOwn ==
  [][\A c \in CallIds :
       Unsubscribed(c)
         => \A t \in EventTypes :
              /\ OthersThan(calls'[c].arg, t, listeners'[t])
                   = OthersThan(calls'[c].arg, t, listeners[t])
              /\ Len(listeners[t]) - Len(listeners'[t]) \in {0, 1}]_vars

RugRecorded(c) == calls'[c].op = "recordRugDetection" /\ now' = now

\* the score evaluate would store for evidence e with the record rec stored
ScoreWith(e, rec) == computeScore(e, rec # NoRecord, rec)

\* C22: a recordRugDetection call leaves the band and the stored score of
\* every dev as they were, and the next evaluate of the dev applies the
\* penalty of the recorded rug: on any evidence it stores a score that is
\* lower than the one it would have stored before the call (unless that
\* score is already clamped or the rug penalty already capped).
C22_RugAppliedAtNextEvaluate ==
  [][\A c \in CallIds :
       RugRecorded(c)
         => LET d == calls'[c].sub
            IN /\ \A x \in Devs :
                    /\ records'[x].band = records[x].band
                    /\ records'[x].internalScore = records[x].internalScore
               /\ \A e \in Evidence(d) :
                    /\ ScoreWith(e, records'[d]) <= ScoreWith(e, records[d])
                    /\ (/\ ScoreWith(e, records[d]) > 0
                        /\ ScoreWith(e, records[d]) < 10000
                        /\ applyTemporalDecay(records[d].rugDetections,
                                              records[d].recidivismCount) * 20 < 4500)
                         => ScoreWith(e, records'[d]) < ScoreWith(e, records[d])]_vars

\* C23: a recordRugDetection(dev, severity) call appends exactly one entry,
\* the severity at the time of the call, to the rug history of that dev,
\* whether or not the dev has been evaluated before.
C23_RugAlwaysAppended ==
  [][\A c \in CallIds :
       RugRecorded(c)
         => records'[calls'[c].sub].rugDetections =
              Append(records[calls'[c].sub].rugDetections,
                     [timestamp |-> now, severity |-> calls'[c].arg])]_vars

\* C24: the recidivism multiplier of a dev's record follows the number of
\* rug detections on record: 1.0 with one detection, 2.5 with two, 4.0 with
\* three or more, whatever the time between the detections.
C24_MultiplierFollowsDetections ==
  \A d \in Devs :
    LET n == Len(records[d].rugDetections)
    IN n >= 1 => recidivismMultiplier(records[d].recidivismCount) =
                   IF n = 1 THEN 10 ELSE IF n = 2 THEN 25 ELSE 40

\* C25: the decayed penalty of every rug detection on record follows a
\* 30-day half-life: it is strictly smaller at a greater age, about 50% of
\* the severity at 30 days and about 25% at 60 days.
C25_HalfLifeDecay ==
  \A d \in Devs :
    \A i \in 1..Len(records[d].rugDetections) :
      LET r == records[d].rugDetections[i]
          age == now - r.timestamp
          retained == sumDecayed(<<r>>)
      IN /\ \A h \in 1..MaxHalfLives :
              r.severity * decayFactor(h * HALF_LIFE)
                < r.severity * decayFactor((h - 1) * HALF_LIFE)
         /\ age = HALF_LIFE
              => (45 * r.severity <= 100 * retained /\ 100 * retained <= 55 * r.severity)
         /\ age = 2 * HALF_LIFE
              => (20 * r.severity <= 100 * retained /\ 100 * retained <= 30 * r.severity)

(***************************************************************************)
(* Claims about the pattern detector                                       *)
(***************************************************************************)
\* the step is a direct query of the detector made in frame c: it records
\* nothing
Queried(c, op) == calls'[c].op = op /\ UNCHANGED <<patterns, transitions, history>>

\* the recorded transitions that leave label from, and their total count
OutgoingOf(from) == {i \in 1..Len(transitions) : transitions[i].from = from}
TotalOf(from) ==
  Sum([i \in 1..Len(transitions) |->
         IF transitions[i].from = from THEN transitions[i].count ELSE 0])
\* the labels observed in the recorded transitions
ObservedLabels ==
  {transitions[i].from : i \in 1..Len(transitions)}
    \cup {transitions[i].to : i \in 1..Len(transitions)}

\* C26: getTransitionProbabilities(from) returns a list with one entry per
\* distinct successor of from, each with its count out of the total outgoing
\* count of from (so the probabilities sum to 1), sorted by descending
\* probability; the list is empty for a label without outgoing transition.
C26_TransitionProbabilities ==
  [][\A c \in CallIds :
       Queried(c, "getTransitionProbabilities")
         => LET from == calls'[c].arg
                results == calls'[c].log
            IN /\ calls'[c].ret = "array"
               /\ Len(results) = Cardinality(OutgoingOf(from))
               /\ \A i \in OutgoingOf(from) :
                    \E j \in 1..Len(results) :
                      /\ results[j].to = transitions[i].to
                      /\ results[j].count = transitions[i].count
                      /\ results[j].total = TotalOf(from)
               /\ \A j \in 1..(Len(results) - 1) :
                    results[j].count >= results[j + 1].count]_vars

\* C27: once a transition has been recorded, predictNextAction returns a
\* label, and one observed in the recorded transitions.
C27_PredictionIsObservedLabel ==
  [][\A c \in CallIds :
       (Queried(c, "predictNextAction") /\ transitions # <<>>)
         => calls'[c].ret \in ObservedLabels]_vars

\* C28: of two forecastMagnitude calls made one after the other on the same
\* observations, the one with the greater lookahead returns the strictly
\* smaller confidence.
C28_ConfidenceStrictlyDecreasing ==
  [][\A c \in CallIds :
       (/\ Queried(c, "forecastMagnitude")
        /\ calls[c].op = "forecastMagnitude"
        /\ calls[c].ret = "forecast" /\ calls'[c].ret = "forecast"
        /\ calls[c].mark < calls'[c].mark)
         => calls[c].log[1].confidence > calls'[c].log[1].confidence]_vars

(***************************************************************************)
(* Claims about the Mayhem intelligence                                    *)
(***************************************************************************)
\* C30: anticipateNextChaos called after more than 3 SPREAD_WIDENING
\* observations have been recorded returns a signal that recommends
\* TIGHTEN_SPREADS, also when the observations are recent.
C30_TightenSpreadsAfterWidening ==
  \A c \in CallIds :
    (calls[c].op = "anticipateNextChaos" /\ calls[c].mark > 3)
      => calls[c].ret = "TIGHTEN_SPREADS"

(***************************************************************************)
(* Claims about the independence of entities                               *)
(***************************************************************************)
\* C29: a step of an operation on one entity (initialize, band change, rug
\* detection, cooldown, terminate) leaves the lifecycle state, the state
\* start time and the transition history of every other entity unchanged:
\* a step changes at most one entity, one that an operation was called on.
C29_EntitiesIndependent ==
  [][/\ \A c \in CallIds :
          Stepped(c)
            => \A m \in Mints \ {calls'[c].mint} :
                 /\ tokenStates'[m].currentState = tokenStates[m].currentState
                 /\ tokenStates'[m].stateStartTime = tokenStates[m].stateStartTime
                 /\ tokenStates'[m].transitionHistory = tokenStates[m].transitionHistory
     /\ \A m \in Mints :
          tokenStates'[m] # tokenStates[m]
            => /\ \E c \in CallIds : calls'[c].op # "none" /\ calls'[c].mint = m
               /\ \A x \in Mints \ {m} : tokenStates'[x] = tokenStates[x]]_vars

\* C29: m2 was initialized and moved to GUARDIAN at time 0; a day later m1 was
\* initialized, hit by a rug and terminated, and m2 is as it was
C29_Witness ==
  /\ tokenStates["m2"].currentState = "GUARDIAN"
  /\ tokenStates["m2"].stateStartTime = 0
  /\ Len(tokenStates["m2"].transitionHistory) = 1
  /\ tokenStates["m1"].currentState = "TERMINATED"
  /\ tokenStates["m1"].stateStartTime = COOLDOWN_THRESHOLD
  /\ Len(tokenStates["m1"].transitionHistory) = 2
  /\ \E c \in CallIds : calls[c].op = "terminate" /\ calls[c].mint = "m1"
                        /\ calls[c].ret = "void"

(***************************************************************************)
(* Claims about the pattern streams                                         *)
(***************************************************************************)
\* the calls the caller's loops have made so far
MagnitudesFed ==
  IF calls[1].op = "recordMagnitude" THEN calls[1].mark
  ELSE IF calls[1].op = "recordTransition" THEN StreamLength ELSE 0
TransitionsFed == IF calls[1].op = "recordTransition" THEN calls[1].mark ELSE 0

\* C36: after n recordMagnitude calls for one pattern type the stream holds
\* exactly the most recent min(n, 1000) observations in arrival order, and
\* after n recordTransition calls the label history holds the most recent
\* min(n, 100) target labels in arrival order.
C36_StreamsKeepMostRecent ==
  /\ \A t \in PatternTypes :
       LET n == MagnitudesFed
           k == Min(n, 1000)
       IN patterns[t].observations = [i \in 1..k |-> Reading(n - k + i)]
  /\ LET n == TransitionsFed
         k == Min(n, 100)
     IN history = [i \in 1..k |-> Target(n - k + i)]

\* C36: both loops have run past the cap of their stream
C36_Witness ==
  /\ MagnitudesFed = 1000 + MaxOverflow
  /\ TransitionsFed = 100 + MaxOverflow
  /\ \A t \in PatternTypes : Len(patterns[t].observations) = 1000
  /\ Len(history) = 100

(***************************************************************************)
(* Claims about recidivism and re-evaluation                                *)
(***************************************************************************)
\* the detections of a rug history that lie within the trailing 60 days
WithinWindow(rugDetections) ==
  {i \in 1..Len(rugDetections) : now - rugDetections[i].timestamp < RECIDIVISM_WINDOW}

\* C35: for a dev with a record, recordRugDetection increases recidivismCount
\* by exactly one when, counting the new detection, two or more of the dev's
\* detections lie within the trailing 60 days, and leaves it unchanged
\* otherwise; no step decreases recidivismCount.
C35_RecidivismCountsRecentRepeats ==
  [][/\ \A d \in Devs : records'[d].recidivismCount >= records[d].recidivismCount
     /\ \A c \in CallIds :
          (RugRecorded(c) /\ records[calls'[c].sub] # NoRecord)
            => LET d == calls'[c].sub
                   repeat == Cardinality(WithinWindow(records'[d].rugDetections)) >= 2
               IN records'[d].recidivismCount =
                    records[d].recidivismCount + (IF repeat THEN 1 ELSE 0)]_vars

\* C35: two detections on the same day made one repeat offense, and a third
\* detection 60 days later, alone in its window, has been recorded since
C35_Witness ==
  \E d \in EvaluatedDevs, c \in CallIds :
    /\ calls[c].op = "recordRugDetection"
    /\ Len(records[d].rugDetections) = 3
    /\ records[d].rugDetections[2].timestamp = 0
    /\ records[d].rugDetections[3].timestamp = 2 * HALF_LIFE
    /\ now = 2 * HALF_LIFE
    /\ records[d].recidivismCount = 1

\* C39: two consecutive evaluate calls for the same dev with identical
\* evidence, made at the same clock reading with no rug detection recorded
\* in between, store the same score and the same band; the first evaluation
\* of a dev and the later ones agree.
C39_ReevaluationStable ==
  [][\A c \in CallIds :
       (/\ calls[c].op = "evaluate" /\ calls'[c].op = "evaluate"
        /\ calls'[c].arg = calls[c].arg
        /\ LET d == calls[c].arg.devWallet
           IN /\ records'[d].observationCount = records[d].observationCount + 1
              /\ records[d].lastUpdated = now /\ now' = now)
         => LET d == calls[c].arg.devWallet
            IN /\ records'[d].internalScore = records[d].internalScore
               /\ records'[d].band = records[d].band
               /\ calls'[c].ret = calls[c].ret]_vars

(***************************************************************************)
(* Claims about the orchestrator's ticks                                   *)
(***************************************************************************)
\* C32: once the entity is in COOLDOWN a band change does not move it to
\* GUARDIAN, NEUTRAL or ADVERSARIAL: no step that takes the entity out of
\* COOLDOWN is a band-change (CRI_CHANGE) transition.
C32_BandChangeKeepsCooldown ==
  [][\A m \in Mints :
       /\ tokenStates[m].currentState = "COOLDOWN"
       /\ tokenStates'[m].currentState # "COOLDOWN"
       /\ tokenStates'[m].transitionHistory # <<>>
       => LastOf(tokenStates'[m].transitionHistory).triggeredBy # "CRI_CHANGE"]_vars

\* C33: within a tick the reputation refresh and the band-change transition
\* happen before the rate-limit check: a tick that returns because of the
\* rate limit has evaluated the reputation in this tick, and the status and
\* the state machine hold the band it evaluated.
C33_RefreshBeforeRateLimit ==
  [][\A c \in CallIds :
       (/\ calls[c].op = "tick" /\ calls[c].pc # "done"
        /\ calls'[c].pc = "done"
        /\ calls'[c].sub = "isRateLimited")
         => /\ calls[c].band \in CRIBands
            /\ statusMap'.criband = calls[c].band
            /\ tokenStates'[TokenMint].criband = calls[c].band]_vars

\* C37: whenever no call of the orchestrator is in flight, the lifecycle
\* state its status query reports (getStatus().state) is the state machine's
\* current state of the entity, after any sequence of tick, onRugDetected
\* and terminate calls, ticks that cross the 24h threshold included.
C37_StatusReportsCurrentState ==
  (NoneInFlight /\ getStatus # NoStatus)
    => getStatus.state = getState(TokenMint)

(***************************************************************************)
(* Claims about the transition history                                     *)
(***************************************************************************)
\* C38: an entity's transition history is a chain: the first record's from
\* is INIT, each record's from is the previous record's to, and the last
\* record's to is the entity's current state, also when calls on the entity
\* overlap.
C38_HistoryIsChain ==
  \A m \in Mints :
    LET h == getTransitionHistory(m)
    IN h # <<>>
         => /\ h[1].from = "INIT"
            /\ \A i \in 2..Len(h) : h[i].from = h[i - 1].to
            /\ LastOf(h).to = tokenStates[m].currentState

(***************************************************************************)
(* Claims about the rate-limit state of the market maker                   *)
(***************************************************************************)
\* the cooldowns isRateLimited is asked with: the default of 30 s, and one hour
Cooldowns == {ACTION_COOLDOWN, 2 * HalfHour}

\* C34: decideAction has no effect on the rate-limit state: for every pool
\* and cooldown isRateLimited gives the same result before and after a
\* decideAction call, and between two moments of the same clock reading its
\* result changes only by recordAction.
C34_DecideActionKeepsRateLimit ==
  [][/\ Len(actionLog') = Len(actionLog) + 1
        => \A p \in PoolIds, cd \in Cooldowns :
             mmIsRateLimited(p, cd)' = mmIsRateLimited(p, cd)
     /\ (now' = now /\ \E p \in PoolIds, cd \in Cooldowns :
                          mmIsRateLimited(p, cd)' # mmIsRateLimited(p, cd))
        => lastActionTime' # lastActionTime /\ actionLog' = actionLog]_vars

\* C34: decideAction was called twice while the pool was rate limited, and
\* the pool is still rate limited
C34_Witness ==
  /\ Len(actionLog) = MaxDecisions
  /\ \A i \in 1..Len(actionLog) : actionLog[i].timestamp = HalfHour
  /\ lastActionTime["p1"] = HalfHour
  /\ mmIsRateLimited("p1", ACTION_COOLDOWN)
  /\ \E c \in CallIds : Decided(c)

(***************************************************************************)
(* Claims about the liquidity manager                                      *)
(***************************************************************************)
\* frame c holds an order-placing call made in this step (setBudget changes
\* neither the frames nor the order history)
OrdersPlaced(c) ==
  /\ calls'[c].op \in {"compressSpread", "smoothVolume"}
  /\ calls'[c] # calls[c] \/ orderHistory' # orderHistory

\* C31: for every mint with a budget set the orders counted against the
\* block cap never exceed it (blockUsed <= blockCap) after any sequence of
\* compressSpread and smoothVolume calls, and a call rejected by the cap
\* records no order and leaves the budget unchanged.
C31_BlockCapHolds ==
  /\ [](\A m \in LiquidityMints :
          budgets[m].isSet => budgets[m].blockUsed <= budgets[m].blockCap)
  /\ [][\A c \in CallIds :
          OrdersPlaced(c) /\ calls'[c].ret = "rejected"
            => UNCHANGED <<budgets, orderHistory>>]_vars

====
